---- MODULE Spec2Model ----
(***************************************************************************)
(* Model of the firmups backend: the key catalog and its admin             *)
(* transactions (src/src/api/rest/device_key.rs), the COSE envelope codec  *)
(* (src/src/api/cbor/codec/cose.rs), the per-request key handling          *)
(* (src/src/api/cbor/cose_handler.rs), the operation dispatcher            *)
(* (src/src/api/cbor/operation_handler.rs) and the datagram loop           *)
(* (src/src/api/cbor/mod.rs).                                              *)
(*                                                                         *)
(* The relational catalog is PostgreSQL at READ COMMITTED: a statement     *)
(* sees the committed rows plus the writes of its own transaction, and a   *)
(* transaction's writes become visible at its commit.  Every await on the  *)
(* catalog is one step of the model.  The catalog, the random source and   *)
(* the disk are taken to work: their transient failures are not drawn.     *)
(***************************************************************************)
EXTENDS Integers, Sequences, FiniteSets, TLC

VARIABLES
  device,                   \* table device: id -> row
  firmware,                 \* table firmware: id -> row
  blob,                     \* blob store: file_id -> bytes of <file_id>.bin
  device_key,               \* table device_key: set of rows
  lightweight_key_details,  \* table lightweight_key_details: set of rows
  device_key_seq,           \* last value of the serial device_key.id
  advisory_lock,            \* pg_advisory_xact_lock: key -> holder
  tx,                       \* the admin workers' open transactions
  udp,                      \* the datagram loop and its request's locals
  sent,                     \* datagrams handed to send_to, modulo 2
  codec,                    \* a message sealed and opened by the codec alone
  firmware_seq,             \* last value of the serial firmware.id
  rest,                     \* the REST workers' firmware requests
  cancel                    \* the CancellationToken of the datagram loop

vars == <<device, firmware, blob, device_key, lightweight_key_details,
          device_key_seq, advisory_lock, tx, udp, sent, codec,
          firmware_seq, rest, cancel>>

(***************************************************************************)
(* Bounds of the model.                                                    *)
(***************************************************************************)
\* How many firmware rows the REST workers may try to insert in a run.
MaxFirmwareRows == 3

\* How many device_key rows the admin plane may try to insert in a run.
MaxKeyRows == 3

(***************************************************************************)
(* Option values: None is the empty set, Some(x) the singleton.            *)
(***************************************************************************)
None == {}

Some(x) == {x}

\* A byte string of n bytes b.
Bytes(n, b) == [i \in 1..n |-> b]

(***************************************************************************)
(* The catalog's fixed content: two devices, two firmware images.          *)
(***************************************************************************)
DevA == 7

DevB == 300

\* An id no device row has.
DevGone == 9

DeviceIds == {DevA, DevB}

AdminDeviceIds == {DevA, DevB, DevGone}

Admins == {"a1", "a2"}

NoAdmin == "none"

CryptoAlgorithms == {"AesGcm128", "AsconAead128"}

KeyStatuses == {"ACTIVE", "NEXT", "EXPIRED"}

\* The key bytes an admin may post: a 16-byte and a 12-byte key.
AdminKeys == {Bytes(16, 17), Bytes(12, 51)}

\* NewDeviceKeyKind: LIGHTWEIGHT with algorithm and key, or TLS.
NewDeviceKeyKinds ==
  {[key_type |-> "LIGHTWEIGHT", algorithm |-> alg, key |-> k] :
      alg \in CryptoAlgorithms, k \in AdminKeys}
  \cup {[key_type |-> "TLS", algorithm |-> "none", key |-> <<>>]}

(***************************************************************************)
(* Admin transactions.                                                     *)
(***************************************************************************)
IdleTx ==
  [op |-> "idle", pc |-> "idle", device_id |-> 0, path_id |-> 0,
   payload |-> [key_type |-> "none", algorithm |-> "none", key |-> <<>>],
   key_status |-> "NEXT", ins |-> {}, ins_lw |-> {}, del |-> {},
   res |-> "none"]

\* The device_key rows a statement of transaction a sees.
visible_keys(a) ==
  {r \in device_key : r.id \notin tx[a].del} \cup tx[a].ins

\* The lightweight_key_details rows a statement of transaction a sees.
visible_details(a) ==
  {r \in lightweight_key_details : r.device_key \notin tx[a].del}
  \cup tx[a].ins_lw

\* The key length of the AEAD primitive: CryptoAes128Gcm takes 16 bytes,
\* and so does ascon_aead128's Key.
key_len(alg) ==
  IF alg = "AesGcm128" THEN 16 ELSE 16

\* The key length create_device_key accepts for an algorithm.
admin_key_len(alg) ==
  IF alg = "AsconAead128" THEN 16 ELSE 12

\* The payload's length check of create_device_key.
payload_accepted(p) ==
  p.key_type = "LIGHTWEIGHT" => Len(p.key) = admin_key_len(p.algorithm)

\* Creates that have not yet drawn their id from the sequence.
pending_creates ==
  {b \in Admins : tx[b].op = "create"
                  /\ tx[b].pc \in {"check_next", "check_active", "insert_key"}}

\* create_lock without the wait for the advisory lock.
create_lock_no_wait(a, d, p) ==
  /\ tx[a].op = "idle"
  /\ device_key_seq + Cardinality(pending_creates) < MaxKeyRows
  /\ advisory_lock' = [advisory_lock EXCEPT ![d] = a]
  /\ tx' = [tx EXCEPT ![a] =
              IF payload_accepted(p)
              THEN [IdleTx EXCEPT !.op = "create", !.pc = "check_next",
                                  !.device_id = d, !.payload = p]
              ELSE [IdleTx EXCEPT !.op = "create", !.pc = "rollback",
                                  !.device_id = d, !.payload = p,
                                  !.res = "BAD_REQUEST"]]
  /\ UNCHANGED <<firmware_seq, rest, cancel>>
  /\ UNCHANGED <<udp, sent, codec, device, firmware, blob, device_key, lightweight_key_details,
                 device_key_seq>>

\* BEGIN; SELECT pg_advisory_xact_lock(device_id), which waits while another
\* transaction holds the key; then the payload's length check.
create_lock(a, d, p) ==
  /\ tx[a].op = "idle"
  /\ device_key_seq + Cardinality(pending_creates) < MaxKeyRows
  /\ advisory_lock[d] = NoAdmin
  /\ advisory_lock' = [advisory_lock EXCEPT ![d] = a]
  /\ tx' = [tx EXCEPT ![a] =
              IF payload_accepted(p)
              THEN [IdleTx EXCEPT !.op = "create", !.pc = "check_next",
                                  !.device_id = d, !.payload = p]
              ELSE [IdleTx EXCEPT !.op = "create", !.pc = "rollback",
                                  !.device_id = d, !.payload = p,
                                  !.res = "BAD_REQUEST"]]
  /\ UNCHANGED <<firmware_seq, rest, cancel>>
  /\ UNCHANGED <<udp, sent, codec, device, firmware, blob, device_key, lightweight_key_details,
                 device_key_seq>>

\* exists(device_key where device = device_id and status = NEXT)
create_check_next(a) ==
  /\ tx[a].op = "create" /\ tx[a].pc = "check_next"
  /\ LET next_exists ==
           \E r \in visible_keys(a) :
              r.device = tx[a].device_id /\ r.status = "NEXT"
     IN tx' = [tx EXCEPT ![a] =
                 IF next_exists
                 THEN [@ EXCEPT !.pc = "rollback", !.res = "CONFLICT"]
                 ELSE [@ EXCEPT !.pc = "check_active"]]
  /\ UNCHANGED <<firmware_seq, rest, cancel>>
  /\ UNCHANGED <<udp, sent, codec, device, firmware, blob, device_key, lightweight_key_details,
                 device_key_seq, advisory_lock>>

\* exists(device_key where device = device_id and status = ACTIVE)
create_check_active(a) ==
  /\ tx[a].op = "create" /\ tx[a].pc = "check_active"
  /\ LET active_exists ==
           \E r \in visible_keys(a) :
              r.device = tx[a].device_id /\ r.status = "ACTIVE"
     IN tx' = [tx EXCEPT ![a] =
                 [@ EXCEPT !.pc = "insert_key",
                           !.key_status = IF ~active_exists THEN "ACTIVE" ELSE @]]
  /\ UNCHANGED <<firmware_seq, rest, cancel>>
  /\ UNCHANGED <<udp, sent, codec, device, firmware, blob, device_key, lightweight_key_details,
                 device_key_seq, advisory_lock>>

\* INSERT INTO device_key ... RETURNING; the device foreign key is checked.
create_insert_key(a) ==
  /\ tx[a].op = "create" /\ tx[a].pc = "insert_key"
  /\ device_key_seq' = device_key_seq + 1
  /\ tx' = [tx EXCEPT ![a] =
              IF tx[a].device_id \in DOMAIN device
              THEN [@ EXCEPT !.pc = "insert_details",
                             !.ins = {[id |-> device_key_seq + 1,
                                       device |-> tx[a].device_id,
                                       key_type |-> tx[a].payload.key_type,
                                       status |-> tx[a].key_status]}]
              ELSE [@ EXCEPT !.pc = "rollback", !.res = "NOT_FOUND"]]
  /\ UNCHANGED <<firmware_seq, rest, cancel>>
  /\ UNCHANGED <<udp, sent, codec, device, firmware, blob, device_key, lightweight_key_details,
                 advisory_lock>>

\* INSERT INTO lightweight_key_details for a LIGHTWEIGHT key; TLS is refused.
create_insert_details(a) ==
  /\ tx[a].op = "create" /\ tx[a].pc = "insert_details"
  /\ tx' = [tx EXCEPT ![a] =
              IF tx[a].payload.key_type = "LIGHTWEIGHT"
              THEN [@ EXCEPT !.pc = "commit", !.res = "CREATED",
                             !.ins_lw = {[device_key |-> r.id,
                                          algorithm |-> tx[a].payload.algorithm,
                                          key |-> tx[a].payload.key] : r \in tx[a].ins}]
              ELSE [@ EXCEPT !.pc = "rollback", !.res = "CONFLICT"]]
  /\ UNCHANGED <<firmware_seq, rest, cancel>>
  /\ UNCHANGED <<udp, sent, codec, device, firmware, blob, device_key, lightweight_key_details,
                 device_key_seq, advisory_lock>>

\* delete_check_active testing the wrong status.
delete_check_next(a, d, k) ==
  /\ tx[a].op = "idle"
  /\ LET is_active ==
           \E r \in device_key :
              r.id = k /\ r.device = d /\ r.status = "NEXT"
     IN tx' = [tx EXCEPT ![a] =
                 IF is_active
                 THEN [IdleTx EXCEPT !.op = "delete", !.pc = "rollback",
                                     !.device_id = d, !.path_id = k,
                                     !.res = "CONFLICT"]
                 ELSE [IdleTx EXCEPT !.op = "delete", !.pc = "select",
                                     !.device_id = d, !.path_id = k]]
  /\ UNCHANGED <<firmware_seq, rest, cancel>>
  /\ UNCHANGED <<udp, sent, codec, device, firmware, blob, device_key, lightweight_key_details,
                 device_key_seq, advisory_lock>>

\* BEGIN; exists(device_key where id = path_id and device = device_id and
\* status = ACTIVE).  No advisory lock is taken.
delete_check_active(a, d, k) ==
  /\ tx[a].op = "idle"
  /\ LET is_active ==
           \E r \in device_key :
              r.id = k /\ r.device = d /\ r.status = "ACTIVE"
     IN tx' = [tx EXCEPT ![a] =
                 IF is_active
                 THEN [IdleTx EXCEPT !.op = "delete", !.pc = "rollback",
                                     !.device_id = d, !.path_id = k,
                                     !.res = "CONFLICT"]
                 ELSE [IdleTx EXCEPT !.op = "delete", !.pc = "select",
                                     !.device_id = d, !.path_id = k]]
  /\ UNCHANGED <<firmware_seq, rest, cancel>>
  /\ UNCHANGED <<udp, sent, codec, device, firmware, blob, device_key, lightweight_key_details,
                 device_key_seq, advisory_lock>>

\* delete_select filtering by the key's id alone.
delete_select_by_id(a) ==
  /\ tx[a].op = "delete" /\ tx[a].pc = "select"
  /\ LET rows == {r \in visible_keys(a) : r.id = tx[a].path_id}
         lw_opt == {l \in visible_details(a) :
                      \E r \in rows : l.device_key = r.id
                                      /\ r.key_type = "LIGHTWEIGHT"}
     IN tx' = [tx EXCEPT ![a] =
                 IF rows = {}
                 THEN [@ EXCEPT !.pc = "rollback", !.res = "NOT_FOUND"]
                 ELSE IF lw_opt = {}
                 THEN [@ EXCEPT !.pc = "rollback", !.res = "INTERNAL"]
                 ELSE [@ EXCEPT !.pc = "delete"]]
  /\ UNCHANGED <<firmware_seq, rest, cancel>>
  /\ UNCHANGED <<udp, sent, codec, device, firmware, blob, device_key, lightweight_key_details,
                 device_key_seq, advisory_lock>>

\* The row with id = path_id and device = device_id, left-joined to its details.
delete_select(a) ==
  /\ tx[a].op = "delete" /\ tx[a].pc = "select"
  /\ LET rows == {r \in visible_keys(a) :
                    r.id = tx[a].path_id /\ r.device = tx[a].device_id}
         lw_opt == {l \in visible_details(a) :
                      \E r \in rows : l.device_key = r.id
                                      /\ r.key_type = "LIGHTWEIGHT"}
     IN tx' = [tx EXCEPT ![a] =
                 IF rows = {}
                 THEN [@ EXCEPT !.pc = "rollback", !.res = "NOT_FOUND"]
                 ELSE IF lw_opt = {}
                 THEN [@ EXCEPT !.pc = "rollback", !.res = "INTERNAL"]
                 ELSE [@ EXCEPT !.pc = "delete"]]
  /\ UNCHANGED <<firmware_seq, rest, cancel>>
  /\ UNCHANGED <<udp, sent, codec, device, firmware, blob, device_key, lightweight_key_details,
                 device_key_seq, advisory_lock>>

\* DELETE FROM device_key WHERE id = path_id RETURNING; waits for a
\* concurrent delete of the same row to end.
delete_row(a) ==
  /\ tx[a].op = "delete" /\ tx[a].pc = "delete"
  /\ \A b \in Admins \ {a} : tx[a].path_id \notin tx[b].del
  /\ tx' = [tx EXCEPT ![a] =
              IF \E r \in visible_keys(a) : r.id = tx[a].path_id
              THEN [@ EXCEPT !.pc = "commit", !.res = "OK",
                             !.del = {tx[a].path_id}]
              ELSE [@ EXCEPT !.pc = "rollback", !.res = "NOT_FOUND"]]
  /\ UNCHANGED <<firmware_seq, rest, cancel>>
  /\ UNCHANGED <<udp, sent, codec, device, firmware, blob, device_key, lightweight_key_details,
                 device_key_seq, advisory_lock>>

\* The advisory locks left once transaction a has ended.
release_locks(a) ==
  [k \in DOMAIN advisory_lock |->
     IF advisory_lock[k] = a THEN NoAdmin ELSE advisory_lock[k]]

\* lightweight_key_details rows go with their device_key row.
on_delete_cascade(details, ids) ==
  {l \in details : l.device_key \notin ids}

\* COMMIT, and the handler's answer tx[a].res.
tx_commit(a) ==
  /\ tx[a].pc = "commit"
  /\ device_key' = {r \in device_key : r.id \notin tx[a].del} \cup tx[a].ins
  /\ lightweight_key_details' =
        on_delete_cascade(lightweight_key_details, tx[a].del) \cup tx[a].ins_lw
  /\ advisory_lock' = release_locks(a)
  /\ tx' = [tx EXCEPT ![a] = IdleTx]
  /\ UNCHANGED <<firmware_seq, rest, cancel>>
  /\ UNCHANGED <<udp, sent, codec, device, firmware, blob, device_key_seq>>

\* ROLLBACK, and the handler's answer tx[a].res.
\* tx_rollback keeping the rows the transaction inserted.
tx_rollback_keeping_rows(a) ==
  /\ tx[a].pc = "rollback"
  /\ device_key' = device_key \cup tx[a].ins
  /\ advisory_lock' = release_locks(a)
  /\ tx' = [tx EXCEPT ![a] = IdleTx]
  /\ UNCHANGED <<firmware_seq, rest, cancel>>
  /\ UNCHANGED <<udp, sent, codec, device, firmware, blob, lightweight_key_details,
                 device_key_seq>>

\* ROLLBACK, and the handler's answer tx[a].res.
tx_rollback(a) ==
  /\ tx[a].pc = "rollback"
  /\ advisory_lock' = release_locks(a)
  /\ tx' = [tx EXCEPT ![a] = IdleTx]
  /\ UNCHANGED <<firmware_seq, rest, cancel>>
  /\ UNCHANGED <<udp, sent, codec, device, firmware, blob, device_key, lightweight_key_details,
                 device_key_seq>>

create_device_key(a) ==
  \/ \E d \in AdminDeviceIds, p \in NewDeviceKeyKinds : create_lock(a, d, p)
  \/ create_check_next(a)
  \/ create_check_active(a)
  \/ create_insert_key(a)
  \/ create_insert_details(a)

delete_device_key(a) ==
  \/ \E d \in DeviceIds, k \in 1..MaxKeyRows : delete_check_active(a, d, k)
  \/ delete_select(a)
  \/ delete_row(a)

admin_step(a) ==
  \/ create_device_key(a)
  \/ delete_device_key(a)
  \/ tx_commit(a)
  \/ tx_rollback(a)

(***************************************************************************)
(* CBOR as minicbor writes and reads it.  A decoder is a buffer and an     *)
(* offset; a read answers [ok, val, pos].  The model's integers end at     *)
(* 2^31 - 1: wider arguments are answered as read failures, and no         *)
(* datagram of the model carries one.                                      *)
(***************************************************************************)
Fail == [ok |-> FALSE, val |-> 0, pos |-> 0]

\* n bytes of buf from offset pos.
Slice(buf, pos, n) == SubSeq(buf, pos + 1, pos + n)

\* The big-endian value of a byte string.
RECURSIVE be_value(_)
be_value(bs) ==
  IF bs = <<>> THEN 0
  ELSE be_value(SubSeq(bs, 1, Len(bs) - 1)) * 256 + bs[Len(bs)]

\* The w bytes of n, big-endian.
RECURSIVE be_bytes(_, _)
be_bytes(n, w) ==
  IF w = 0 THEN <<>> ELSE Append(be_bytes(n \div 256, w - 1), n % 256)

\* A big-endian byte string whose value the model's integers hold.
fits_int(bs) ==
  \A i \in 1..Len(bs) :
     /\ i <= Len(bs) - 4 => bs[i] = 0
     /\ i = Len(bs) - 3 => bs[i] < 128

\* The argument of the data item head at pos; -1 for an indefinite length.
head(buf, pos) ==
  IF pos >= Len(buf) THEN Fail
  ELSE LET info == buf[pos + 1] % 32
           n == CASE info = 24 -> 1 [] info = 25 -> 2 [] info = 26 -> 4
                  [] info = 27 -> 8 [] OTHER -> 0
       IN IF info < 24 THEN [ok |-> TRUE, val |-> info, pos |-> pos + 1]
          ELSE IF info = 31 THEN [ok |-> TRUE, val |-> -1, pos |-> pos + 1]
          ELSE IF info > 27 THEN Fail
          ELSE IF pos + 1 + n > Len(buf) THEN Fail
          ELSE IF ~fits_int(Slice(buf, pos + 1, n)) THEN Fail
          ELSE [ok |-> TRUE, val |-> be_value(Slice(buf, pos + 1, n)),
                pos |-> pos + 1 + n]

\* The major type of the data item at pos.
major(buf, pos) == buf[pos + 1] \div 32

\* Decoder::u8, u16, u32: an unsigned integer of any width that fits max.
dec_uint(buf, pos, max) ==
  LET h == head(buf, pos)
  IN IF pos >= Len(buf) THEN Fail
     ELSE IF major(buf, pos) # 0 \/ ~h.ok THEN Fail
     ELSE IF h.val < 0 \/ h.val > max THEN Fail
     ELSE h

dec_u8(buf, pos) == dec_uint(buf, pos, 255)

dec_u16(buf, pos) == dec_uint(buf, pos, 65535)

dec_u32(buf, pos) == dec_uint(buf, pos, 2147483647)

\* Decoder::array: the length, or -1 (None) for an indefinite array.
dec_array(buf, pos) ==
  IF pos >= Len(buf) THEN Fail
  ELSE IF major(buf, pos) # 4 THEN Fail
  ELSE head(buf, pos)

\* Decoder::map: the length, or -1 (None) for an indefinite map.
dec_map(buf, pos) ==
  IF pos >= Len(buf) THEN Fail
  ELSE IF major(buf, pos) # 5 THEN Fail
  ELSE head(buf, pos)

\* Decoder::bytes: a definite-length byte string.
dec_bytes(buf, pos) ==
  LET h == head(buf, pos)
  IN IF pos >= Len(buf) THEN Fail
     ELSE IF major(buf, pos) # 2 \/ ~h.ok THEN Fail
     ELSE IF h.val < 0 \/ h.pos + h.val > Len(buf) THEN Fail
     ELSE [ok |-> TRUE, val |-> Slice(buf, h.pos, h.val), pos |-> h.pos + h.val]

\* Encoder: a head of major type m with argument n, in its shortest form.
enc_head(m, n) ==
  IF n < 24 THEN <<m * 32 + n>>
  ELSE IF n < 256 THEN <<m * 32 + 24, n>>
  ELSE IF n < 65536 THEN <<m * 32 + 25>> \o be_bytes(n, 2)
  ELSE <<m * 32 + 26>> \o be_bytes(n, 4)

enc_uint(n) == enc_head(0, n)

enc_bytes(bs) == enc_head(2, Len(bs)) \o bs

enc_str(chars) == enc_head(3, Len(chars)) \o chars

enc_array(n) == enc_head(4, n)

enc_map(n) == enc_head(5, n)

enc_null == <<246>>

(***************************************************************************)
(* The AEAD primitives behind CryptoAead.  The ciphers themselves are      *)
(* library code; they are stood for by a keyed stream and a 16-byte tag    *)
(* over key, nonce, associated data and ciphertext body, which open        *)
(* exactly what they sealed and refuse a changed byte or another key.      *)
(***************************************************************************)
nonce_len(alg) == IF alg = "AesGcm128" THEN 12 ELSE 16

tag_len(alg) == IF alg = "AesGcm128" THEN 16 ELSE 16

\* CoseAlgorithmIdentifier as u16.
alg_id(alg) == IF alg = "AesGcm128" THEN 1 ELSE 35

keystream(key, nonce, i) ==
  (key[((i - 1) % Len(key)) + 1] + nonce[((i - 1) % Len(nonce)) + 1] + i) % 256

\* The sum of bytes lo..hi of bs, each weighted by its index when w.
RECURSIVE byte_sum(_, _, _, _)
byte_sum(bs, lo, hi, w) ==
  IF lo > hi THEN 0
  ELSE IF lo = hi THEN bs[lo] * (IF w THEN lo ELSE 1)
  ELSE byte_sum(bs, lo, (lo + hi) \div 2, w)
       + byte_sum(bs, ((lo + hi) \div 2) + 1, hi, w)

\* The tag of sums s1 and s2.
tag_of(alg, s1, s2) ==
  [j \in 1..tag_len(alg) |-> (s1 + (j - 1) * s2) % 256]

\* The tag over the message m of key, nonce, associated data and body.
tag_over(alg, m, n) ==
  tag_of(alg, byte_sum(m, 1, Len(m), FALSE) + n,
         byte_sum(m, 1, Len(m), TRUE) + alg_id(alg))

\* The tag mixed from the tag over everything and the sums of each part, so
\* that a changed byte of any part changes the tag.
tag_mix(t, s_key, s_nonce, s_aad, s_body) ==
  [j \in DOMAIN t |->
     CASE j = 1 -> s_key % 256
       [] j = 2 -> s_nonce % 256
       [] j = 3 -> s_aad % 256
       [] j = 4 -> s_body % 256
       [] OTHER -> t[j]]

aead_tag(alg, key, nonce, aad, body) ==
  tag_mix(tag_over(alg, key \o nonce \o aad \o body, Len(aad)),
          byte_sum(key, 1, Len(key), FALSE),
          byte_sum(nonce, 1, Len(nonce), FALSE),
          byte_sum(aad, 1, Len(aad), FALSE),
          byte_sum(body, 1, Len(body), FALSE))

\* CryptoAead::encrypt: ciphertext body followed by the tag.
encrypt(alg, key, nonce, aad, plaintext) ==
  IF Len(key) # key_len(alg) \/ Len(nonce) # nonce_len(alg)
  THEN [ok |-> FALSE, val |-> <<>>]
  ELSE LET body == [i \in 1..Len(plaintext) |->
                      (plaintext[i] + keystream(key, nonce, i)) % 256]
       IN [ok |-> TRUE, val |-> body \o aead_tag(alg, key, nonce, aad, body)]

\* decrypt answering the plaintext whatever the tag.
decrypt_unchecked(alg, key, nonce, aad, ciphertext) ==
  IF Len(key) # key_len(alg) \/ Len(nonce) # nonce_len(alg)
  THEN [ok |-> FALSE, val |-> <<>>]
  ELSE IF Len(ciphertext) < tag_len(alg) THEN [ok |-> FALSE, val |-> <<>>]
  ELSE [ok |-> TRUE,
        val |-> [i \in 1..(Len(ciphertext) - tag_len(alg)) |->
                   (ciphertext[i] + 256 - keystream(key, nonce, i)) % 256]]

\* CryptoAead::decrypt: the plaintext, if the tag is the one of the body.
decrypt(alg, key, nonce, aad, ciphertext) ==
  IF Len(key) # key_len(alg) \/ Len(nonce) # nonce_len(alg)
  THEN [ok |-> FALSE, val |-> <<>>]
  ELSE IF Len(ciphertext) < tag_len(alg) THEN [ok |-> FALSE, val |-> <<>>]
  ELSE LET n == Len(ciphertext) - tag_len(alg)
           body == SubSeq(ciphertext, 1, n)
           tag == SubSeq(ciphertext, n + 1, Len(ciphertext))
       IN IF tag # aead_tag(alg, key, nonce, aad, body)
          THEN [ok |-> FALSE, val |-> <<>>]
          ELSE [ok |-> TRUE,
                val |-> [i \in 1..n |->
                           (body[i] + 256 - keystream(key, nonce, i)) % 256]]

(***************************************************************************)
(* The COSE_Encrypt0 envelope (codec/cose.rs).                             *)
(***************************************************************************)
\* ProtectedHeaderKey
EncryptionAlgorithm == 1

CriticalHeaderList == 2

EncryptionNonce == 5

DeviceId == 8608

Opcode == 8633

\* The text "Encrypt0".
Encrypt0 == <<69, 110, 99, 114, 121, 112, 116, 48>>

\* An outcome of the codec: an error, or "none" with its values.
CoseErr(e) ==
  [err |-> e, device_id |-> 0, opcode |-> 0, key_type |-> "none",
   key |-> <<>>, pt |-> <<>>]

ProtectedHeaderDecode ==
  [device_id |-> None, opcode |-> None, encryption_algorithm |-> None,
   nonce |-> None]

\* encode_protected_header writing the opcode as one byte.
encode_protected_header_u8_opcode(protected_header) ==
  enc_map(5)
  \o enc_uint(EncryptionAlgorithm)
  \o enc_uint(alg_id(protected_header.encryption_algorithm))
  \o enc_uint(DeviceId) \o enc_uint(protected_header.device_id)
  \o enc_uint(Opcode) \o enc_uint(protected_header.opcode % 256)
  \o enc_uint(EncryptionNonce) \o enc_bytes(protected_header.nonce)
  \o enc_uint(CriticalHeaderList) \o enc_array(2)
  \o enc_uint(DeviceId) \o enc_uint(Opcode)

\* encode_protected_header writing the device id before the algorithm, in
\* a map of indefinite length.
encode_protected_header_unordered(protected_header) ==
  <<191>>
  \o enc_uint(DeviceId) \o enc_uint(protected_header.device_id)
  \o enc_uint(EncryptionAlgorithm)
  \o enc_uint(alg_id(protected_header.encryption_algorithm))
  \o enc_uint(Opcode) \o enc_uint(protected_header.opcode)
  \o enc_uint(EncryptionNonce) \o enc_bytes(protected_header.nonce)
  \o enc_uint(CriticalHeaderList) \o enc_array(2)
  \o enc_uint(DeviceId) \o enc_uint(Opcode)
  \o <<255>>

encode_protected_header(protected_header) ==
  enc_map(5)
  \o enc_uint(EncryptionAlgorithm)
  \o enc_uint(alg_id(protected_header.encryption_algorithm))
  \o enc_uint(DeviceId) \o enc_uint(protected_header.device_id)
  \o enc_uint(Opcode) \o enc_uint(protected_header.opcode)
  \o enc_uint(EncryptionNonce) \o enc_bytes(protected_header.nonce)
  \o enc_uint(CriticalHeaderList) \o enc_array(2)
  \o enc_uint(DeviceId) \o enc_uint(Opcode)

\* The critical header check taking every header id for one it understands.
critical_header_any(header_id) == TRUE

\* The critical headers the decoder understands: DeviceId and Opcode.
critical_header_understood(header_id) == header_id \in {DeviceId, Opcode}

\* The loop over the critical header list: [err, pos].
RECURSIVE critical_header_list(_, _, _, _)
critical_header_list(buf, pos, size, count) ==
  IF size >= 0 /\ count >= size THEN [err |-> "none", pos |-> pos]
  ELSE IF size < 0 /\ pos >= Len(buf)
  THEN [err |-> "InvalidMessage", pos |-> pos]
  ELSE IF size < 0 /\ buf[pos + 1] = 255 THEN [err |-> "none", pos |-> pos + 1]
  ELSE LET header_id == dec_u16(buf, pos)
       IN IF ~header_id.ok THEN [err |-> "InvalidMessage", pos |-> pos]
          ELSE IF ~critical_header_understood(header_id.val)
          THEN [err |-> "UnknownCriticalHeader", pos |-> pos]
          ELSE critical_header_list(buf, header_id.pos, size, count + 1)

\* The loop over the header map: [err, header].
RECURSIVE header_loop(_, _, _, _, _)
header_loop(buf, pos, map_size, header_count, header) ==
  IF map_size >= 0 /\ header_count >= map_size
  THEN [err |-> "none", header |-> header]
  ELSE IF map_size < 0 /\ pos >= Len(buf)
  THEN [err |-> "InvalidMessage", header |-> header]
  ELSE IF map_size < 0 /\ buf[pos + 1] = 255
  THEN [err |-> "none", header |-> header]
  ELSE
    LET header_key == dec_u16(buf, pos)
        bad == [err |-> "InvalidMessage", header |-> header]
    IN IF ~header_key.ok THEN bad
       ELSE IF header_key.val = DeviceId
       THEN LET v == dec_u32(buf, header_key.pos)
            IN IF ~v.ok THEN bad
               ELSE header_loop(buf, v.pos, map_size, header_count + 1,
                                [header EXCEPT !.device_id = Some(v.val)])
       ELSE IF header_key.val = Opcode
       THEN LET v == dec_u16(buf, header_key.pos)
            IN IF ~v.ok THEN bad
               ELSE header_loop(buf, v.pos, map_size, header_count + 1,
                                [header EXCEPT !.opcode = Some(v.val)])
       ELSE IF header_key.val = EncryptionAlgorithm
       THEN LET v == dec_u16(buf, header_key.pos)
            IN IF ~v.ok THEN bad
               ELSE IF v.val \notin {alg_id(a) : a \in CryptoAlgorithms}
               THEN [err |-> "UnknownAlgorithm", header |-> header]
               ELSE header_loop(buf, v.pos, map_size, header_count + 1,
                      [header EXCEPT !.encryption_algorithm =
                         {a \in CryptoAlgorithms : alg_id(a) = v.val}])
       ELSE IF header_key.val = EncryptionNonce
       THEN LET v == dec_bytes(buf, header_key.pos)
            IN IF ~v.ok THEN bad
               ELSE header_loop(buf, v.pos, map_size, header_count + 1,
                                [header EXCEPT !.nonce = Some(v.val)])
       ELSE IF header_key.val = CriticalHeaderList
       THEN LET size == dec_array(buf, header_key.pos)
                list == critical_header_list(buf, size.pos, size.val, 0)
            IN IF ~size.ok THEN bad
               ELSE IF list.err # "none"
               THEN [err |-> list.err, header |-> header]
               ELSE header_loop(buf, list.pos, map_size, header_count + 1,
                                header)
       ELSE [err |-> "UnknownHeaderKey", header |-> header]

\* decode_protected_header reading fixed-length maps only.
decode_protected_header_fixed_length(protected_header_buf) ==
  LET map_size == dec_map(protected_header_buf, 0)
  IN IF ~map_size.ok \/ map_size.val = -1
     THEN [err |-> "InvalidMessage", header |-> ProtectedHeaderDecode]
     ELSE header_loop(protected_header_buf, map_size.pos, map_size.val, 0,
                      ProtectedHeaderDecode)

decode_protected_header(protected_header_buf) ==
  LET map_size == dec_map(protected_header_buf, 0)
  IN IF ~map_size.ok
     THEN [err |-> "InvalidMessage", header |-> ProtectedHeaderDecode]
     ELSE header_loop(protected_header_buf, map_size.pos, map_size.val, 0,
                      ProtectedHeaderDecode)

\* The one element of a Some.
unwrap(opt) == CHOOSE x \in opt : TRUE

\* create_aad over the header serialized again from its decoded values.
create_aad_reencoded(protected_header_buf) ==
  LET hd == decode_protected_header(protected_header_buf)
      h == hd.header
  IN enc_array(3) \o enc_str(Encrypt0)
     \o enc_bytes(IF \/ hd.err # "none"
                     \/ h.device_id = None \/ h.opcode = None
                     \/ h.encryption_algorithm = None \/ h.nonce = None
                  THEN protected_header_buf
                  ELSE encode_protected_header(
                         [device_id |-> unwrap(h.device_id),
                          opcode |-> unwrap(h.opcode),
                          encryption_algorithm |->
                             unwrap(h.encryption_algorithm),
                          nonce |-> unwrap(h.nonce)]))
     \o enc_bytes(<<>>)

create_aad(protected_header_buf) ==
  enc_array(3) \o enc_str(Encrypt0) \o enc_bytes(protected_header_buf)
  \o enc_bytes(<<>>)

EnvelopeErr(e) ==
  [err |-> e, device_id |-> 0, opcode |-> 0, key_type |-> "none",
   nonce |-> <<>>, aad |-> <<>>, ct |-> <<>>]

\* decode_msg from the protected header's try_from to its key lookup, for
\* the header hd that decode_protected_header answered.
envelope_of_header(msg, protected_header_buffer, hd) ==
  LET h == hd.header
      unprotected == dec_map(msg, protected_header_buffer.pos)
      encrypted_operation_buffer == dec_bytes(msg, unprotected.pos)
  IN IF hd.err # "none" THEN EnvelopeErr(hd.err)
     ELSE IF h.device_id = None \/ h.opcode = None
             \/ h.encryption_algorithm = None \/ h.nonce = None
     THEN EnvelopeErr("MissingHeaderField")
     ELSE IF Len(unwrap(h.nonce)) # nonce_len(unwrap(h.encryption_algorithm))
     THEN EnvelopeErr("InvalidMessage")
     ELSE IF ~unprotected.ok \/ unprotected.val # 0
     THEN EnvelopeErr("InvalidMessage")
     ELSE IF ~encrypted_operation_buffer.ok THEN EnvelopeErr("InvalidMessage")
     ELSE IF Len(encrypted_operation_buffer.val)
               < tag_len(unwrap(h.encryption_algorithm))
     THEN EnvelopeErr("InvalidMessage")
     ELSE [err |-> "none", device_id |-> unwrap(h.device_id),
           opcode |-> unwrap(h.opcode),
           key_type |-> unwrap(h.encryption_algorithm),
           nonce |-> unwrap(h.nonce),
           aad |-> create_aad(protected_header_buffer.val),
           ct |-> encrypted_operation_buffer.val]

\* decode_msg up to its key lookup: the checks of the envelope's structure.
\* Answers [err, device_id, opcode, key_type, nonce, aad, ct].
envelope(msg) ==
  LET arr == dec_array(msg, 0)
      protected_header_buffer == dec_bytes(msg, arr.pos)
  IN IF ~arr.ok \/ arr.val # 3 THEN EnvelopeErr("InvalidMessage")
     ELSE IF ~protected_header_buffer.ok THEN EnvelopeErr("InvalidMessage")
     ELSE envelope_of_header(
            msg, protected_header_buffer,
            decode_protected_header(protected_header_buffer.val))

(***************************************************************************)
(* The key providers (cose_handler.rs).  A provider answers [err, key].    *)
(***************************************************************************)
DbKeyProvider == [kind |-> "DbKeyProvider"]

StaticKeyProvider(device_id, key_type, key_bytes) ==
  [kind |-> "StaticKeyProvider", device_id |-> device_id,
   key_type |-> key_type, key_bytes |-> key_bytes]

\* key_for_device answering with the device's NEXT key.
db_key_for_device_next(device_id, key_type) ==
  LET rows == {<<r, l>> \in device_key \X lightweight_key_details :
                 /\ l.device_key = r.id
                 /\ r.device = device_id
                 /\ r.status = "NEXT"}
      first == CHOOSE x \in rows : TRUE
  IN IF rows = {} THEN [err |-> "KeyNotFound", key |-> <<>>]
     ELSE [err |-> "none", key |-> first[2].key]

\* DbKeyProvider::key_for_device: the ACTIVE key row of the device joined to
\* its details; at most one row matches (C1), first() takes it.
db_key_for_device(device_id, key_type) ==
  LET rows == {<<r, l>> \in device_key \X lightweight_key_details :
                 /\ l.device_key = r.id
                 /\ r.device = device_id
                 /\ r.status = "ACTIVE"}
      first == CHOOSE x \in rows : TRUE
  IN IF rows = {} THEN [err |-> "KeyNotFound", key |-> <<>>]
     ELSE IF first[1].key_type # "LIGHTWEIGHT"
     THEN [err |-> "KeyMismatch", key |-> <<>>]
     ELSE IF first[2].algorithm # key_type
     THEN [err |-> "KeyMismatch", key |-> <<>>]
     ELSE [err |-> "none", key |-> first[2].key]

\* StaticKeyProvider::key_for_device
static_key_for_device(self, device_id, key_type) ==
  IF self.device_id # device_id THEN [err |-> "KeyNotFound", key |-> <<>>]
  ELSE IF self.key_type # key_type THEN [err |-> "KeyMismatch", key |-> <<>>]
  ELSE [err |-> "none", key |-> self.key_bytes]

\* KeyProvider::key_for_device of a dyn KeyProvider.
key_for_device(key_provider, device_id, key_type) ==
  IF key_provider.kind = "DbKeyProvider"
  THEN db_key_for_device(device_id, key_type)
  ELSE static_key_for_device(key_provider, device_id, key_type)

\* decode_msg after its key lookup answered k, for the envelope env.
open_envelope(k, env) ==
  LET pt == decrypt(env.key_type, k.key, env.nonce, env.aad, env.ct)
  IN IF env.err # "none" THEN CoseErr(env.err)
     ELSE IF k.err # "none" THEN CoseErr("DecryptionError")
     ELSE IF ~pt.ok THEN CoseErr("DecryptionError")
     ELSE [err |-> "none", device_id |-> env.device_id,
           opcode |-> env.opcode, key_type |-> env.key_type,
           key |-> k.key, pt |-> pt.val]

\* decode_msg from its key lookup on, for the envelope env.
lookup_and_open(key_provider, env) ==
  IF env.err # "none" THEN CoseErr(env.err)
  ELSE open_envelope(
         key_for_device(key_provider, env.device_id, env.key_type), env)

\* decode_msg: [err, device_id, opcode, key_type, key, pt].
decode_msg(key_provider, msg) ==
  lookup_and_open(key_provider, envelope(msg))

\* encode_msg after its key lookup answered k, for the encoded protected
\* header hdr.
seal_envelope(k, key_type, operation, nonce, hdr) ==
  LET ct == encrypt(key_type, k.key, nonce, create_aad(hdr), operation)
  IN IF k.err # "none" THEN [err |-> "EncryptionError", msg |-> <<>>]
     ELSE IF ~ct.ok THEN [err |-> "EncryptionError", msg |-> <<>>]
     ELSE [err |-> "none",
           msg |-> enc_array(3) \o enc_bytes(hdr) \o enc_map(0)
                   \o enc_bytes(ct.val)]

\* encode_msg with the nonce getrandom filled in: [err, msg].
encode_msg(key_provider, key_type, device_id, operation_id, operation, nonce) ==
  seal_envelope(key_for_device(key_provider, device_id, key_type),
                key_type, operation, nonce,
                encode_protected_header(
                  [device_id |-> device_id, opcode |-> operation_id,
                   encryption_algorithm |-> key_type, nonce |-> nonce]))

(***************************************************************************)
(* Operations (codec/operation, operation_handler.rs).                     *)
(***************************************************************************)
\* OperationError
InvalidOperation == 0

DecodingError == 1

DeviceNotFound == 4

FirmwareNotFound == 5

InternalError == 6

\* OperationType
Error == 1

GetDeviceInfoRequest == 6

GetDeviceInfoResponse == 7

SetDeviceInfoRequest == 8

SetDeviceInfoResponse == 9

GetFirmwareRequest == 10

GetFirmwareResponse == 11

\* The largest length a firmware request may ask for: 1024 * 1024.
MaxFirmwareLength == 1048576

\* The size of the buffer a firmware response is encoded into.
CursorSize == 1024

encode_operation_error(error) == enc_array(1) \o enc_uint(error)

\* handle_error_operation answering under the opcode Invalid.
handle_error_operation_invalid(error) ==
  [opcode |-> 0, operation |-> encode_operation_error(error)]

handle_error_operation(error) ==
  [opcode |-> Error, operation |-> encode_operation_error(error)]

\* DeviceStatus as u8 counting from MAINTENANCE.
status_u8_reversed(status) ==
  CASE status = "ACTIVE" -> 2
    [] status = "INACTIVE" -> 1
    [] OTHER -> 0

\* The conversion taking every byte above 1 for MAINTENANCE.
device_status_lenient(src) ==
  CASE src = 0 -> Some("ACTIVE")
    [] src = 1 -> Some("INACTIVE")
    [] OTHER -> Some("MAINTENANCE")

\* TryFrom<u8> for DeviceStatus
device_status(src) ==
  CASE src = 0 -> Some("ACTIVE")
    [] src = 1 -> Some("INACTIVE")
    [] src = 2 -> Some("MAINTENANCE")
    [] OTHER -> None

\* DeviceStatus as u8
status_u8(status) ==
  CASE status = "ACTIVE" -> 0
    [] status = "INACTIVE" -> 1
    [] OTHER -> 2

decode_get_device_info_request(operation) ==
  LET arr == dec_array(operation, 0)
      id == dec_u32(operation, arr.pos)
  IN IF ~arr.ok \/ arr.val # 1 THEN [ok |-> FALSE, device_id |-> 0]
     ELSE IF ~id.ok THEN [ok |-> FALSE, device_id |-> 0]
     ELSE [ok |-> TRUE, device_id |-> id.val]

encode_get_device_info_response(response) ==
  enc_array(3)
  \o (IF response.firmware = None THEN enc_null
      ELSE enc_uint(unwrap(response.firmware)))
  \o enc_uint(response.desired_firmware)
  \o enc_uint(response.status)

decode_set_device_info_request(operation) ==
  LET bad == [ok |-> FALSE, firmware |-> 0, status |-> 0]
      arr == dec_array(operation, 0)
      fw == dec_u32(operation, arr.pos)
      st == dec_u8(operation, fw.pos)
  IN IF ~arr.ok \/ arr.val # 2 THEN bad
     ELSE IF ~fw.ok THEN bad
     ELSE IF ~st.ok THEN bad
     ELSE [ok |-> TRUE, firmware |-> fw.val, status |-> st.val]

encode_set_device_info_response(response) ==
  enc_array(3) \o enc_uint(response.firmware)
  \o enc_uint(response.desired_firmware) \o enc_uint(response.status)

decode_get_firmware_request(operation) ==
  LET bad == [ok |-> FALSE, firmware |-> 0, offset |-> 0, length |-> 0]
      arr == dec_array(operation, 0)
      fw == dec_u32(operation, arr.pos)
      off == dec_u32(operation, fw.pos)
      len == dec_u32(operation, off.pos)
  IN IF ~arr.ok \/ arr.val # 3 THEN bad
     ELSE IF ~fw.ok THEN bad
     ELSE IF ~off.ok THEN bad
     ELSE IF ~len.ok THEN bad
     ELSE [ok |-> TRUE, firmware |-> fw.val, offset |-> off.val,
           length |-> len.val]

\* A write to the Cursor: all of the piece, or nothing when it does not fit.
cursor_write(buf, piece) ==
  IF Len(buf) + Len(piece) <= CursorSize THEN buf \o piece ELSE buf

encode_get_firmware_response(response) ==
  LET b1 == cursor_write(<<>>, enc_array(4))
      b2 == cursor_write(b1, enc_uint(response.firmware))
      b3 == cursor_write(b2, enc_uint(response.offset))
      b4 == cursor_write(b3, enc_uint(response.length))
      b5 == cursor_write(b4, enc_head(2, Len(response.data)))
  IN cursor_write(b5, response.data)

\* The update writing the firmware and leaving the status.
update_device_firmware_only(row, fw, ds) ==
  [row EXCEPT !.firmware = Some(fw)]

\* The update also writing the firmware as the desired firmware.
update_device_desired(row, fw, ds) ==
  [row EXCEPT !.firmware = Some(fw), !.desired_firmware = fw, !.status = ds]

\* diesel::update(device.find(id)).set(UpdateDevice {firmware: Some(fw),
\* status: Some(ds), desired_firmware, name, type_: None}): the row it returns.
update_device(row, fw, ds) ==
  [row EXCEPT !.firmware = Some(fw), !.status = ds]

\* The query answering with some row of the table when none has the id.
first_row_or_any(table, row_id) ==
  IF row_id \in DOMAIN table THEN Some(table[row_id])
  ELSE {table[CHOOSE i \in DOMAIN table : TRUE]}

\* table.filter(id.eq(row_id)).first(): the row, or None for NotFound.
first_row(table, row_id) ==
  IF row_id \in DOMAIN table THEN Some(table[row_id]) ELSE None

\* OperationType::Invalid
Invalid == 0

\* The conversion taking a response's opcode for its request's.
operation_type_from_response(value) ==
  IF value \in {7, 9, 11} THEN value - 1
  ELSE IF value \in 1..11 THEN value ELSE Invalid

\* impl From<u16> for OperationType
operation_type_from(value) ==
  IF value \in 1..11 THEN value ELSE Invalid

NoFile == [file_id |-> "none", firmware |-> 0, offset |-> 0, length |-> 0]

\* The update writing any firmware id.
foreign_key_unchecked(fw) == FALSE

\* DatabaseErrorKind::ForeignKeyViolation on fk_firmware: the device's
\* firmware is no row of firmware.
foreign_key_violation(fw) == fw \notin DOMAIN firmware

\* handle_operation up to the answer of its catalog statement:
\* [resp, device, file], the response (or None while the file is still to
\* be read), the device table it leaves, and the file request.
handle_operation(device_id, opcode, operation) ==
  LET failed(e) == [resp |-> Some(handle_error_operation(e)),
                    device |-> device, file |-> NoFile]
      opcode_type == operation_type_from(opcode)
  IN
  IF opcode_type = GetDeviceInfoRequest THEN
    LET req == decode_get_device_info_request(operation)
        found == first_row(device, req.device_id)
        result == unwrap(found)
    IN IF ~req.ok THEN failed(DecodingError)
       ELSE IF found = None THEN failed(DeviceNotFound)
       ELSE [resp |-> Some([opcode |-> GetDeviceInfoResponse,
                            operation |-> encode_get_device_info_response(
                               [firmware |-> result.firmware,
                                desired_firmware |-> result.desired_firmware,
                                status |-> status_u8(result.status)])]),
             device |-> device, file |-> NoFile]
  ELSE IF opcode_type = SetDeviceInfoRequest THEN
    LET req == decode_set_device_info_request(operation)
        ds == device_status(req.status)
        result == update_device(device[device_id], req.firmware, unwrap(ds))
    IN IF ~req.ok THEN failed(DecodingError)
       ELSE IF ds = None THEN failed(InvalidOperation)
       ELSE IF device_id \notin DOMAIN device THEN failed(InternalError)
       ELSE IF foreign_key_violation(req.firmware) THEN failed(InternalError)
       ELSE [resp |-> Some([opcode |-> SetDeviceInfoResponse,
                            operation |-> encode_set_device_info_response(
                               [firmware |-> unwrap(result.firmware),
                                desired_firmware |-> result.desired_firmware,
                                status |-> status_u8(result.status)])]),
             device |-> [device EXCEPT ![device_id] = result],
             file |-> NoFile]
  ELSE IF opcode_type = GetFirmwareRequest THEN
    LET req == decode_get_firmware_request(operation)
        found == first_row(firmware, req.firmware)
    IN IF ~req.ok THEN failed(DecodingError)
       ELSE IF found = None THEN failed(FirmwareNotFound)
       ELSE [resp |-> None, device |-> device,
             file |-> [file_id |-> unwrap(found).file_id,
                       firmware |-> req.firmware, offset |-> req.offset,
                       length |-> req.length]]
  ELSE failed(InvalidOperation)

\* handle_operation from File::open on: the response to a firmware request.
read_firmware(file) ==
  IF file.file_id \notin DOMAIN blob
  THEN handle_error_operation(InternalError)
  ELSE IF file.length > MaxFirmwareLength
  THEN handle_error_operation(InvalidOperation)
  ELSE LET bytes == blob[file.file_id]
           avail == IF file.offset >= Len(bytes) THEN 0
                    ELSE Len(bytes) - file.offset
           read == IF file.length < avail THEN file.length ELSE avail
           buf == Slice(bytes, file.offset, read)
       IN [opcode |-> GetFirmwareResponse,
           operation |-> encode_get_firmware_response(
              [firmware |-> file.firmware, offset |-> file.offset,
               length |-> read, data |-> buf])]

(***************************************************************************)
(* The per-request CoseHandler (cose_handler.rs).                          *)
(***************************************************************************)
\* CoseHandler::new
NewCoseHandler == [device_id |-> None, key_bytes |-> None, key_type |-> None]

\* CoseHandler::decode_msg after cose::decode_msg answered res.
keep_key(res) ==
  IF res.err # "none"
     THEN [err |-> "DecodingError", self |-> NewCoseHandler, device_id |-> 0,
           opcode |-> 0, operation_bytes |-> <<>>]
     ELSE [err |-> "none",
           self |-> [device_id |-> Some(res.device_id),
                     key_bytes |-> Some(res.key),
                     key_type |-> Some(res.key_type)],
           device_id |-> res.device_id, opcode |-> res.opcode,
           operation_bytes |-> res.pt]

\* CoseHandler::decode_msg: [err, self, device_id, opcode, operation_bytes].
cose_handler_decode_msg(msg) ==
  keep_key(decode_msg(DbKeyProvider, msg))

\* The key provider of encode_msg asking the catalog again.
encode_key_provider_db(self) ==
  DbKeyProvider

\* The key provider CoseHandler::encode_msg builds from what decode_msg kept.
encode_key_provider(self) ==
  StaticKeyProvider(unwrap(self.device_id), unwrap(self.key_type),
                    unwrap(self.key_bytes))

\* CoseHandler::encode_msg: [err, msg].
cose_handler_encode_msg(self, operation_id, operation, nonce) ==
  IF self.device_id = None \/ self.key_bytes = None \/ self.key_type = None
  THEN [err |-> "EncodingError", msg |-> <<>>]
  ELSE encode_msg(encode_key_provider(self), unwrap(self.key_type),
                  unwrap(self.device_id), operation_id, operation, nonce)

(***************************************************************************)
(* The buffers that hold key bytes while a datagram is processed.  What a  *)
(* step releases is a sequence of [buffer, bytes]: the buffer's name and   *)
(* the bytes its memory holds when it is released.                         *)
(***************************************************************************)
\* Vec<u8>::zeroize: every byte of the buffer is zero.
zeroize(key_bytes) == [i \in DOMAIN key_bytes |-> 0]

\* The key of the row DbKeyProvider::key_for_device loaded (details.key), if
\* its statement found a row.
db_key_loaded(device_id) ==
  LET rows == {<<r, l>> \in device_key \X lightweight_key_details :
                 /\ l.device_key = r.id
                 /\ r.device = device_id
                 /\ r.status = "ACTIVE"}
      first == CHOOSE x \in rows : TRUE
  IN IF rows = {} THEN None ELSE Some(first[2].key)

\* The buffers released by CoseHandler::decode_msg whose provider loaded the
\* key loaded and answered k: details.key goes out of scope as it is, in
\* key_for_device on a mismatch and otherwise in cose::decode_msg, which was
\* handed it; the provider's copy is zeroized by its Drop.
decode_released(loaded, k) ==
  IF loaded = None THEN <<>>
  ELSE IF k.err # "none"
  THEN <<[buffer |-> "details.key", bytes |-> unwrap(loaded)]>>
  ELSE <<[buffer |-> "details.key", bytes |-> k.key],
         [buffer |-> "DbKeyProvider.key_bytes", bytes |-> zeroize(k.key)]>>

\* The buffers released by CoseHandler::encode_msg: the clone its
\* StaticKeyProvider handed to cose::encode_msg goes out of scope as it is;
\* the provider's own copy is zeroized by its Drop.
encode_released(self) ==
  <<[buffer |-> "StaticKeyProvider::key_for_device.key_bytes",
     bytes |-> unwrap(self.key_bytes)],
    [buffer |-> "StaticKeyProvider.key_bytes",
     bytes |-> zeroize(unwrap(self.key_bytes))]>>

\* The buffer released when the CoseHandler is dropped.
handler_released(self) ==
  IF self.key_bytes = None THEN <<>>
  ELSE <<[buffer |-> "CoseHandler.key_bytes",
          bytes |-> zeroize(unwrap(self.key_bytes))]>>

(***************************************************************************)
(* The datagram loop (api/cbor/mod.rs): one request at a time.             *)
(***************************************************************************)
\* The loop waiting in recv_from, its locals fresh.
\* The socket addresses datagrams come from; NoAddr where none is bound.
NoAddr == 0

PeerA == 1

PeerB == 2

\* addr is the source recv_from answered; sent_to is the destination of the
\* send_to that ended the last iteration, NoAddr when it sent nothing.
IdleUdp ==
  [pc |-> "recv", dgram |-> <<>>, err |-> "none", addr |-> NoAddr,
   sent_to |-> NoAddr,
   cose_handler |-> NewCoseHandler, device_id |-> 0, opcode |-> 0,
   operation_bytes |-> <<>>, file |-> NoFile, response_buf |-> <<>>,
   lookups |-> 0, seq_at_decrypt |-> 0, freed |-> <<>>]

\* The values getrandom may fill a response nonce with.
Nonces(alg) == {Bytes(nonce_len(alg), 1), Bytes(nonce_len(alg), 2)}

\* The failure branch of decode_msg answering the sender.
drop_datagram_answered(dg, e, released) ==
  /\ udp' = [IdleUdp EXCEPT !.dgram = dg, !.err = e, !.freed = released]
  /\ sent' = 1 - sent

\* The failure branch of decode_msg: log and continue with the next datagram.
drop_datagram(dg, e, released) ==
  /\ udp' = [IdleUdp EXCEPT !.dgram = dg, !.err = e, !.freed = released]
  /\ sent' = sent

\* recv_from returns rx.dgram; decode_msg runs to its key lookup, its checks
\* of the envelope answering rx.env.
udp_recv(rx) ==
  /\ udp.pc = "recv"
  /\ IF rx.env.err # "none" THEN drop_datagram(rx.dgram, rx.env.err, <<>>)
     ELSE /\ udp' = [IdleUdp EXCEPT !.pc = "key", !.dgram = rx.dgram,
                                     !.addr = rx.addr]
          /\ sent' = sent
  /\ UNCHANGED <<firmware_seq, rest, cancel>>
  /\ UNCHANGED <<codec, device, firmware, blob, device_key,
                 lightweight_key_details, device_key_seq, advisory_lock, tx>>

\* The buffers CoseHandler::decode_msg releases for the envelope env.
key_buffers_of_decode(env) ==
  decode_released(db_key_loaded(env.device_id),
                  db_key_for_device(env.device_id, env.key_type))

\* The key lookup answers; decode_msg decrypts and the handler keeps the key.
udp_key ==
  /\ udp.pc = "key"
  /\ \E res \in {cose_handler_decode_msg(udp.dgram)},
        released \in {key_buffers_of_decode(envelope(udp.dgram))} :
        IF res.err # "none"
        THEN drop_datagram(udp.dgram, res.err, released)
        ELSE /\ udp' = [udp EXCEPT !.pc = "handle",
                                   !.freed = released,
                                   !.cose_handler = res.self,
                                   !.device_id = res.device_id,
                                   !.opcode = res.opcode,
                                   !.operation_bytes = res.operation_bytes,
                                   !.lookups = 1,
                                   !.seq_at_decrypt = device_key_seq]
             /\ sent' = sent
  /\ UNCHANGED <<firmware_seq, rest, cancel>>
  /\ UNCHANGED <<codec, device, firmware, blob, device_key,
                 lightweight_key_details, device_key_seq, advisory_lock, tx>>

\* cose_handler.encode_msg on the handler's answer, with a fresh nonce.
respond(resp, nonce) ==
  \E res \in {cose_handler_encode_msg(udp.cose_handler, resp.opcode,
                                      resp.operation, nonce)} :
     IF res.err # "none"
     THEN udp' = [IdleUdp EXCEPT
                    !.dgram = udp.dgram, !.err = res.err,
                    !.freed = encode_released(udp.cose_handler)
                              \o handler_released(udp.cose_handler)]
     ELSE udp' = [udp EXCEPT
                    !.pc = "send", !.response_buf = res.msg,
                    !.freed = encode_released(udp.cose_handler),
                    !.lookups =
                       IF encode_key_provider(udp.cose_handler).kind
                            = "DbKeyProvider"
                       THEN @ + 1 ELSE @]

\* handle_operation's catalog statement answers.
udp_handle ==
  /\ udp.pc = "handle"
  /\ \E h \in {handle_operation(udp.device_id, udp.opcode,
                                udp.operation_bytes)} :
        /\ device' = h.device
        /\ IF h.resp = None
           THEN udp' = [udp EXCEPT !.pc = "file", !.file = h.file,
                                   !.freed = <<>>]
           ELSE \E resp \in h.resp,
                   nonce \in Nonces(unwrap(udp.cose_handler.key_type)) :
                   respond(resp, nonce)
  /\ UNCHANGED <<firmware_seq, rest, cancel>>
  /\ UNCHANGED <<sent, codec, firmware, blob, device_key,
                 lightweight_key_details, device_key_seq, advisory_lock, tx>>

\* The firmware file is read.
udp_file ==
  /\ udp.pc = "file"
  /\ \E resp \in {read_firmware(udp.file)},
        nonce \in Nonces(unwrap(udp.cose_handler.key_type)) :
        respond(resp, nonce)
  /\ UNCHANGED <<firmware_seq, rest, cancel>>
  /\ UNCHANGED <<sent, codec, device, firmware, blob, device_key,
                 lightweight_key_details, device_key_seq, advisory_lock, tx>>

\* udp_send addressing every response to one peer.
udp_send_to_one_peer ==
  /\ udp.pc = "send"
  /\ sent' = 1 - sent
  /\ udp' = [IdleUdp EXCEPT !.freed = handler_released(udp.cose_handler),
                            !.sent_to = PeerA]
  /\ UNCHANGED <<firmware_seq, rest, cancel>>
  /\ UNCHANGED <<codec, device, firmware, blob, device_key,
                 lightweight_key_details, device_key_seq, advisory_lock, tx>>

\* send_to(response_buf, addr); the handler and its key are dropped.
udp_send ==
  /\ udp.pc = "send"
  /\ sent' = 1 - sent
  /\ udp' = [IdleUdp EXCEPT !.freed = handler_released(udp.cose_handler),
                            !.sent_to = udp.addr]
  /\ UNCHANGED <<firmware_seq, rest, cancel>>
  /\ UNCHANGED <<codec, device, firmware, blob, device_key,
                 lightweight_key_details, device_key_seq, advisory_lock, tx>>

(***************************************************************************)
(* The datagrams devices send.                                             *)
(***************************************************************************)
get_device_info_request(id) == enc_array(1) \o enc_uint(id)

set_device_info_request(fw, st) ==
  enc_array(2) \o enc_uint(fw) \o enc_uint(st)

get_firmware_request(fw, off, len) ==
  enc_array(3) \o enc_uint(fw) \o enc_uint(off) \o enc_uint(len)

\* An envelope as a device holding key seals it.
device_datagram(alg, key, dev, op, pt) ==
  seal_envelope(
    static_key_for_device(StaticKeyProvider(dev, alg, key), dev, alg),
    alg, pt, Bytes(nonce_len(alg), 9),
    encode_protected_header(
      [device_id |-> dev, opcode |-> op, encryption_algorithm |-> alg,
       nonce |-> Bytes(nonce_len(alg), 9)])).msg

\* An array of three with the given protected header and ciphertext.
raw_envelope(protected_header_buf, ct) ==
  enc_array(3) \o enc_bytes(protected_header_buf) \o enc_map(0)
  \o enc_bytes(ct)

\* The operations device dev asks for: opcode and plaintext.
Requests(dev) ==
  { <<GetDeviceInfoRequest, get_device_info_request(dev)>>,
    <<GetDeviceInfoRequest, get_device_info_request(DevA + DevB - dev)>>,
    <<GetDeviceInfoRequest, get_device_info_request(DevGone)>>,
    <<GetDeviceInfoRequest, enc_array(0)>>,
    <<SetDeviceInfoRequest, set_device_info_request(1, 0)>>,
    <<SetDeviceInfoRequest, set_device_info_request(1, 3)>>,
    <<SetDeviceInfoRequest, set_device_info_request(5, 0)>>,
    <<GetFirmwareRequest, get_firmware_request(1, 1, 5)>>,
    <<GetFirmwareRequest, get_firmware_request(1, 0, MaxFirmwareLength + 1)>>,
    <<GetFirmwareRequest, get_firmware_request(5, 0, 1)>>,
    <<GetFirmwareRequest, <<130, 1, 0>> >>,
    <<GetFirmwareResponse, <<>> >> }

\* Datagrams that do not decode: broken structure, a header field missing,
\* an unknown header key, algorithm or critical header, a short ciphertext.
Malformed ==
  { <<>>,
    <<130>> \o enc_bytes(<<160>>) \o enc_map(0),
    raw_envelope(enc_map(3) \o enc_uint(EncryptionAlgorithm) \o enc_uint(35)
                 \o enc_uint(DeviceId) \o enc_uint(DevA)
                 \o enc_uint(Opcode) \o enc_uint(GetDeviceInfoRequest),
                 Bytes(16, 0)),
    raw_envelope(enc_map(1) \o enc_uint(3) \o enc_uint(0), Bytes(16, 0)),
    raw_envelope(enc_map(1) \o enc_uint(EncryptionAlgorithm) \o enc_uint(3),
                 Bytes(16, 0)),
    raw_envelope(enc_map(1) \o enc_uint(CriticalHeaderList) \o enc_array(1)
                 \o enc_uint(EncryptionNonce), Bytes(16, 0)),
    raw_envelope(encode_protected_header(
                   [device_id |-> DevA, opcode |-> GetDeviceInfoRequest,
                    encryption_algorithm |-> "AsconAead128",
                    nonce |-> Bytes(16, 9)]), Bytes(15, 0)) }

Datagrams ==
  {device_datagram("AsconAead128", Bytes(16, 17), DevA, r[1], r[2]) :
      r \in Requests(DevA)}
  \cup {device_datagram("AsconAead128", Bytes(16, 17), DevB,
                        GetDeviceInfoRequest, get_device_info_request(DevB)),
        device_datagram("AsconAead128", Bytes(16, 34), DevA,
                        GetDeviceInfoRequest, get_device_info_request(DevA)),
        device_datagram("AesGcm128", Bytes(16, 17), DevB,
                        GetDeviceInfoRequest, get_device_info_request(DevB))}
  \cup Malformed

\* Each datagram with what decode_msg finds in it before its key lookup.
Received ==
  {[dgram |-> dg, env |-> envelope(dg), addr |-> PeerA] : dg \in Datagrams}

udp_loop ==
  \/ \E rx \in Received : udp_recv(rx)
  \/ udp_key
  \/ udp_handle
  \/ udp_file
  \/ udp_send

(***************************************************************************)
(* The envelope codec on its own: seal, then open.                         *)
(***************************************************************************)
\* A protected header as a device may write it: the keys of its map in
\* order, the entries of its critical header list, and whether map and list
\* are of indefinite length.
CanonicalKeys ==
  <<EncryptionAlgorithm, DeviceId, Opcode, EncryptionNonce, CriticalHeaderList>>

CanonicalCraft ==
  [keys |-> CanonicalKeys, critical |-> <<DeviceId, Opcode>>,
   indefinite |-> FALSE, indefinite_list |-> FALSE]

IdleCodec ==
  [pc |-> "idle", key_type |-> "none", device_id |-> 0, opcode |-> 0,
   operation |-> <<>>, key |-> <<>>, msg |-> <<>>, res |-> CoseErr("none"),
   tamper |-> "none", craft |-> CanonicalCraft, lookups |-> 0]

CodecDeviceIds == {0, 23, 24, DevB, 70000}

CodecOpcodes == {0, GetDeviceInfoRequest, 255, 256, 65535}

CodecOperations ==
  {<<>>, <<0>>, get_firmware_request(1, 0, MaxFirmwareLength), Bytes(24, 255)}

CodecKeys == {Bytes(16, 17), [i \in 1..16 |-> 16 * i - 1], Bytes(12, 51)}

\* encode_msg with a provider holding the key for (device_id, key_type).
codec_encode ==
  /\ codec.pc = "input"
  /\ \E nonce \in Nonces(codec.key_type) :
     \E res \in {encode_msg(StaticKeyProvider(codec.device_id,
                                              codec.key_type, codec.key),
                            codec.key_type, codec.device_id, codec.opcode,
                            codec.operation, nonce)} :
           codec' = IF res.err # "none"
                    THEN [codec EXCEPT !.pc = "failed"]
                    ELSE [codec EXCEPT !.pc = "encoded", !.msg = res.msg]
  /\ UNCHANGED <<firmware_seq, rest, cancel>>
  /\ UNCHANGED <<udp, sent, device, firmware, blob, device_key,
                 lightweight_key_details, device_key_seq, advisory_lock, tx>>

\* decode_msg on the message, with a provider holding the same key.
codec_decode ==
  /\ codec.pc = "encoded"
  /\ codec' = [codec EXCEPT
                 !.pc = "decoded",
                 !.res = decode_msg(
                           StaticKeyProvider(codec.device_id, codec.key_type,
                                             codec.key), codec.msg)]
  /\ UNCHANGED <<firmware_seq, rest, cancel>>
  /\ UNCHANGED <<udp, sent, device, firmware, blob, device_key,
                 lightweight_key_details, device_key_seq, advisory_lock, tx>>

(***************************************************************************)
(* The codec fed with envelopes changed on the wire, and with envelopes    *)
(* whose protected header a device wrote in another form.                  *)
(***************************************************************************)
\* How far a changed byte is moved, modulo 256.
TamperDeltas == {1, 25, 128, 231}

\* The byte string field of msg whose head is at offset pos: [ok, val, pos]
\* as dec_bytes answers it; its content is msg[pos - Len(val) + 1 .. pos].
header_field(msg) == dec_bytes(msg, dec_array(msg, 0).pos)

ciphertext_field(msg) ==
  dec_bytes(msg, dec_map(msg, header_field(msg).pos).pos)

\* msg with the byte at index i moved by d.
changed_byte(msg, i, d) == [msg EXCEPT ![i] = (@ + d) % 256]

\* A byte of the protected header's byte string is changed in transit.
codec_tamper_header ==
  /\ codec.pc = "encoded"
  /\ \E f \in {header_field(codec.msg)} :
     \E i \in (f.pos - Len(f.val) + 1)..f.pos, d \in TamperDeltas :
        codec' = [codec EXCEPT !.pc = "tampered", !.tamper = "header",
                               !.msg = changed_byte(codec.msg, i, d)]
  /\ UNCHANGED <<firmware_seq, rest, cancel>>
  /\ UNCHANGED <<udp, sent, device, firmware, blob, device_key,
                 lightweight_key_details, device_key_seq, advisory_lock, tx>>

\* A byte of the ciphertext-and-tag field is changed in transit.
codec_tamper_ciphertext ==
  /\ codec.pc = "encoded"
  /\ \E f \in {ciphertext_field(codec.msg)} :
     \E i \in (f.pos - Len(f.val) + 1)..f.pos, d \in TamperDeltas :
        codec' = [codec EXCEPT !.pc = "tampered", !.tamper = "ciphertext",
                               !.msg = changed_byte(codec.msg, i, d)]
  /\ UNCHANGED <<firmware_seq, rest, cancel>>
  /\ UNCHANGED <<udp, sent, device, firmware, blob, device_key,
                 lightweight_key_details, device_key_seq, advisory_lock, tx>>

\* The entries of a critical header list.
RECURSIVE enc_uints(_)
enc_uints(ids) ==
  IF ids = <<>> THEN <<>> ELSE enc_uint(Head(ids)) \o enc_uints(Tail(ids))

\* One entry of a protected header map; a key that is no header's carries 0.
header_entry(key, protected_header, craft) ==
  enc_uint(key)
  \o CASE key = EncryptionAlgorithm ->
            enc_uint(alg_id(protected_header.encryption_algorithm))
       [] key = DeviceId -> enc_uint(protected_header.device_id)
       [] key = Opcode -> enc_uint(protected_header.opcode)
       [] key = EncryptionNonce -> enc_bytes(protected_header.nonce)
       [] key = CriticalHeaderList ->
            (IF craft.indefinite_list
             THEN <<159>> \o enc_uints(craft.critical) \o <<255>>
             ELSE enc_array(Len(craft.critical)) \o enc_uints(craft.critical))
       [] OTHER -> enc_uint(0)

RECURSIVE header_entries(_, _, _)
header_entries(keys, protected_header, craft) ==
  IF keys = <<>> THEN <<>>
  ELSE header_entry(Head(keys), protected_header, craft)
       \o header_entries(Tail(keys), protected_header, craft)

\* The protected header in the form craft.
craft_protected_header(protected_header, craft) ==
  IF craft.indefinite
  THEN <<191>> \o header_entries(craft.keys, protected_header, craft)
       \o <<255>>
  ELSE enc_map(Len(craft.keys))
       \o header_entries(craft.keys, protected_header, craft)

\* keys without its entry k.
without(keys, k) == SelectSeq(keys, LAMBDA x : x # k)

\* The five headers in every order of their keys, with map and critical
\* header list each of fixed or of indefinite length.
KeyOrderCrafts ==
  {[keys |-> [i \in 1..5 |-> CanonicalKeys[order[i]]],
    critical |-> <<DeviceId, Opcode>>,
    indefinite |-> map_form, indefinite_list |-> list_form] :
     order \in Permutations(1..5), map_form \in BOOLEAN,
     list_form \in BOOLEAN}

\* The forms drawn: the canonical one, other orders and indefinite lengths,
\* each header missing in turn, a key that is no header's, and critical
\* header lists of other content.
Crafts ==
  {CanonicalCraft,
   [CanonicalCraft EXCEPT !.indefinite = TRUE, !.indefinite_list = TRUE],
   [CanonicalCraft EXCEPT !.keys = <<CriticalHeaderList, EncryptionNonce,
                                      Opcode, DeviceId, EncryptionAlgorithm>>],
   [CanonicalCraft EXCEPT !.keys = <<3>> \o CanonicalKeys,
                          !.critical = <<42>>]}
  \cup {[CanonicalCraft EXCEPT !.keys = without(CanonicalKeys, k)] :
           k \in {EncryptionAlgorithm, DeviceId, Opcode, EncryptionNonce,
                  CriticalHeaderList}}
  \cup {[CanonicalCraft EXCEPT !.critical = c] :
           c \in {<<>>, <<Opcode, DeviceId>>, <<DeviceId, Opcode, 42>>,
                  <<42>>, <<DeviceId, EncryptionNonce>>,
                  <<DeviceId, Opcode, 70000>>, <<65535, DeviceId>>}}
  \cup {[keys |-> <<CriticalHeaderList>> \o without(CanonicalKeys,
                                                    CriticalHeaderList),
         critical |-> <<Opcode, 42>>, indefinite |-> TRUE,
         indefinite_list |-> TRUE]}
  \cup KeyOrderCrafts

\* A device seals its operation under a protected header of the form c.
codec_craft ==
  /\ codec.pc = "input"
  /\ \E c \in Crafts :
     \E res \in {seal_envelope(
                   static_key_for_device(
                     StaticKeyProvider(codec.device_id, codec.key_type,
                                       codec.key),
                     codec.device_id, codec.key_type),
                   codec.key_type, codec.operation,
                   Bytes(nonce_len(codec.key_type), 9),
                   craft_protected_header(
                     [device_id |-> codec.device_id, opcode |-> codec.opcode,
                      encryption_algorithm |-> codec.key_type,
                      nonce |-> Bytes(nonce_len(codec.key_type), 9)], c))} :
        /\ res.err = "none"
        /\ codec' = [codec EXCEPT !.pc = "crafted", !.tamper = "crafted",
                                  !.craft = c, !.msg = res.msg]
  /\ UNCHANGED <<firmware_seq, rest, cancel>>
  /\ UNCHANGED <<udp, sent, device, firmware, blob, device_key,
                 lightweight_key_details, device_key_seq, advisory_lock, tx>>

\* How often decode_msg asks its key provider: once, after every check of
\* the envelope passed.
key_lookups(env) == IF env.err = "none" THEN 1 ELSE 0

\* decode_msg on a message from the wire, with a provider holding the key
\* of the device that sealed it.
codec_receive ==
  /\ codec.pc \in {"tampered", "crafted"}
  /\ \E env \in {envelope(codec.msg)} :
        codec' = [codec EXCEPT
                    !.pc = "received",
                    !.lookups = key_lookups(env),
                    !.res = lookup_and_open(
                              StaticKeyProvider(codec.device_id,
                                                codec.key_type, codec.key),
                              env)]
  /\ UNCHANGED <<firmware_seq, rest, cancel>>
  /\ UNCHANGED <<udp, sent, device, firmware, blob, device_key,
                 lightweight_key_details, device_key_seq, advisory_lock, tx>>

(***************************************************************************)
(* The REST workers' firmware requests.                                    *)
(***************************************************************************)
RestWorkers == {"r1", "r2"}

\* A worker between requests; res is the status of its last answer.
IdleRest ==
  [pc |-> "idle", name |-> "", version |-> "", file |-> <<>>,
   file_id |-> "none", res |-> 0]

\* The values Uuid::new_v4() draws from.
Uuids == {"u1", "u2", "u3"}

\* A file id no file, row or request in flight carries: what a new random
\* UUID is.
fresh_file_ids ==
  {u \in Uuids :
     /\ u \notin DOMAIN blob
     /\ \A i \in DOMAIN firmware : firmware[i].file_id # u
     /\ \A w \in RestWorkers : rest[w].file_id # u
     /\ udp.file.file_id # u}

\* The statuses of the answers.
Created == 201

Ok == 200

BadRequest == 400

NotFound == 404

Conflict == 409

InternalServerError == 500

\* The blob store with the file left in place.
remove_file_skipped(file_id) ==
  blob

\* fs::remove_file(path): the blob store without the file.
remove_file(file_id) ==
  [f \in DOMAIN blob \ {file_id} |-> blob[f]]

\* The unique index on firmware (name, version): a row with these exists.
firmware_unique_violation(name, version) ==
  \E i \in DOMAIN firmware :
     firmware[i].name = name /\ firmware[i].version = version

\* The foreign keys fk_firmware and fk_desired_firmware of device: a device
\* row refers to the firmware.
firmware_referenced(id) ==
  \E d \in DOMAIN device :
     id \in device[d].firmware \/ device[d].desired_firmware = id

\* The answer of a worker, back between requests.
rest_answer(w, status) == [rest EXCEPT ![w] = [IdleRest EXCEPT !.res = status]]

\* create_firmware going on to the insert with no file written.
create_firmware_unwritten(w, form) ==
  /\ rest[w].pc = "idle"
  /\ firmware_seq < MaxFirmwareRows
  /\ IF form.name = "" \/ form.version = "" \/ form.file = <<>>
     THEN rest' = rest_answer(w, BadRequest)
     ELSE \E file_id \in fresh_file_ids :
            rest' = [rest EXCEPT ![w] =
                       [pc |-> "insert", name |-> form.name,
                        version |-> form.version, file |-> form.file,
                        file_id |-> file_id, res |-> 0]]
  /\ UNCHANGED <<device, firmware, blob, firmware_seq, device_key,
                 lightweight_key_details, device_key_seq, advisory_lock, tx,
                 udp, sent, codec, cancel>>

\* create_firmware up to fs::write: the form is validated and the file is
\* written under a new file id.
create_firmware_write(w, form) ==
  /\ rest[w].pc = "idle"
  /\ firmware_seq < MaxFirmwareRows
  /\ IF form.name = "" \/ form.version = "" \/ form.file = <<>>
     THEN /\ rest' = rest_answer(w, BadRequest)
          /\ UNCHANGED blob
     ELSE \E file_id \in fresh_file_ids :
            /\ blob' = (file_id :> form.file) @@ blob
            /\ rest' = [rest EXCEPT ![w] =
                          [pc |-> "insert", name |-> form.name,
                           version |-> form.version, file |-> form.file,
                           file_id |-> file_id, res |-> 0]]
  /\ UNCHANGED <<device, firmware, firmware_seq, device_key,
                 lightweight_key_details, device_key_seq, advisory_lock, tx,
                 udp, sent, codec, cancel>>

\* create_firmware from the pool's connection on: the insert, and the
\* removal of the file when the connection or the insert fails.  The
\* sequence of firmware.id advances with every insert that is tried.
create_firmware_insert(w, outcome) ==
  /\ rest[w].pc = "insert"
  /\ IF outcome = "no connection"
     THEN /\ blob' = remove_file(rest[w].file_id)
          /\ rest' = rest_answer(w, InternalServerError)
          /\ UNCHANGED <<firmware, firmware_seq>>
     ELSE IF firmware_unique_violation(rest[w].name, rest[w].version)
     THEN /\ blob' = remove_file(rest[w].file_id)
          /\ rest' = rest_answer(w, Conflict)
          /\ firmware_seq' = firmware_seq + 1
          /\ UNCHANGED firmware
     ELSE IF outcome = "database error"
     THEN /\ blob' = remove_file(rest[w].file_id)
          /\ rest' = rest_answer(w, InternalServerError)
          /\ UNCHANGED <<firmware, firmware_seq>>
     ELSE /\ firmware' =
               (firmware_seq + 1 :>
                  [name |-> rest[w].name, version |-> rest[w].version,
                   file_id |-> rest[w].file_id, size |-> Len(rest[w].file)])
               @@ firmware
          /\ firmware_seq' = firmware_seq + 1
          /\ rest' = rest_answer(w, Created)
          /\ UNCHANGED blob
  /\ UNCHANGED <<device, device_key, lightweight_key_details,
                 device_key_seq, advisory_lock, tx, udp, sent, codec, cancel>>

\* delete_firmware up to the answer of DELETE ... RETURNING.
delete_firmware_row(w, path_id) ==
  /\ rest[w].pc = "idle"
  /\ IF path_id \notin DOMAIN firmware
     THEN /\ rest' = rest_answer(w, NotFound)
          /\ UNCHANGED firmware
     ELSE IF firmware_referenced(path_id)
     THEN /\ rest' = rest_answer(w, InternalServerError)
          /\ UNCHANGED firmware
     ELSE /\ firmware' = [i \in DOMAIN firmware \ {path_id} |-> firmware[i]]
          /\ rest' = [rest EXCEPT ![w] =
                        [IdleRest EXCEPT !.pc = "remove",
                                         !.file_id = firmware[path_id].file_id]]
  /\ UNCHANGED <<device, blob, firmware_seq, device_key,
                 lightweight_key_details, device_key_seq, advisory_lock, tx,
                 udp, sent, codec, cancel>>

\* delete_firmware from fs::remove_file on: the file is removed and the
\* deleted row is the answer.
delete_firmware_file(w) ==
  /\ rest[w].pc = "remove"
  /\ blob' = remove_file(rest[w].file_id)
  /\ rest' = rest_answer(w, Ok)
  /\ UNCHANGED <<device, firmware, firmware_seq, device_key,
                 lightweight_key_details, device_key_seq, advisory_lock, tx,
                 udp, sent, codec, cancel>>

\* delete_device: DELETE FROM device ... RETURNING.  The keys of the device
\* go with it or hold it back, as the delete rule of device_key.device
\* has it.
delete_device(w, path_id, rule) ==
  /\ rest[w].pc = "idle"
  /\ IF path_id \notin DOMAIN device
     THEN /\ rest' = rest_answer(w, NotFound)
          /\ UNCHANGED <<device, device_key, lightweight_key_details>>
     ELSE IF rule = "restrict" /\ \E r \in device_key : r.device = path_id
     THEN /\ rest' = rest_answer(w, InternalServerError)
          /\ UNCHANGED <<device, device_key, lightweight_key_details>>
     ELSE /\ device' = [d \in DOMAIN device \ {path_id} |-> device[d]]
          /\ device_key' = {r \in device_key : r.device # path_id}
          /\ lightweight_key_details' =
                on_delete_cascade(
                  lightweight_key_details,
                  {r.id : r \in {q \in device_key : q.device = path_id}})
          /\ rest' = rest_answer(w, Ok)
  /\ UNCHANGED <<firmware, blob, firmware_seq, device_key_seq,
                 advisory_lock, tx, udp, sent, codec, cancel>>

(***************************************************************************)
(* Initial states.                                                         *)
(***************************************************************************)
InitCatalog ==
  /\ device = (DevA :> [name |-> "a", type_ |-> 1, firmware |-> None,
                        desired_firmware |-> 1, status |-> "ACTIVE"])
           @@ (DevB :> [name |-> "b", type_ |-> 1, firmware |-> Some(2),
                        desired_firmware |-> 2, status |-> "INACTIVE"])
  /\ firmware = (1 :> [name |-> "app", version |-> "1", file_id |-> "f1",
                      size |-> 3])
             @@ (2 :> [name |-> "app", version |-> "2", file_id |-> "f2",
                         size |-> 0])
  /\ blob = ("f1" :> <<10, 20, 30>>) @@ ("f2" :> <<>>)
  /\ firmware_seq = 2

InitIdle ==
  /\ udp = IdleUdp
  /\ sent = 0
  /\ rest = [w \in RestWorkers |-> IdleRest]
  /\ cancel = FALSE
  /\ codec = IdleCodec

InitAdmin ==
  /\ InitCatalog
  /\ InitIdle
  /\ device_key = {}
  /\ lightweight_key_details = {}
  /\ device_key_seq = 0
  /\ advisory_lock = [k \in AdminDeviceIds |-> NoAdmin]
  /\ tx = [a \in Admins |-> IdleTx]

NextAdmin ==
  \E a \in Admins : admin_step(a)

\* Two admins working concurrently on a fresh catalog.
SpecAdmin == InitAdmin /\ [][NextAdmin]_vars

(***************************************************************************)
(* One admin working on a catalog that already holds keys, among them      *)
(* EXPIRED ones (the rotation that expires a key is not part of the        *)
(* program; its result is a catalog the program is started on).            *)
(***************************************************************************)
SeedKeys ==
  { <<>>,
    <<[device |-> DevA, status |-> "EXPIRED"]>>,
    <<[device |-> DevA, status |-> "ACTIVE"]>>,
    <<[device |-> DevA, status |-> "NEXT"]>>,
    <<[device |-> DevA, status |-> "ACTIVE"], [device |-> DevA, status |-> "NEXT"]>>,
    <<[device |-> DevA, status |-> "EXPIRED"], [device |-> DevA, status |-> "ACTIVE"]>>,
    <<[device |-> DevA, status |-> "ACTIVE"], [device |-> DevB, status |-> "EXPIRED"]>> }

InitSeeded ==
  /\ InitCatalog
  /\ InitIdle
  /\ \E seed \in SeedKeys :
        /\ device_key = {[id |-> i, device |-> seed[i].device,
                          key_type |-> "LIGHTWEIGHT", status |-> seed[i].status] :
                            i \in 1..Len(seed)}
        /\ lightweight_key_details =
              {[device_key |-> i, algorithm |-> "AsconAead128",
                key |-> Bytes(16, 17)] : i \in 1..Len(seed)}
        /\ device_key_seq = Len(seed)
  /\ advisory_lock = [k \in AdminDeviceIds |-> NoAdmin]
  /\ tx = [a \in Admins |-> IdleTx]

NextSeeded ==
  admin_step("a1")

SpecSeeded == InitSeeded /\ [][NextSeeded]_vars

(***************************************************************************)
(* The datagram service next to an admin, and the codec alone.              *)
(***************************************************************************)
\* The datagram service next to one admin; device DevA holds an ACTIVE key.
Init ==
  /\ InitCatalog
  /\ InitIdle
  /\ device_key = {[id |-> 1, device |-> DevA, key_type |-> "LIGHTWEIGHT",
                    status |-> "ACTIVE"]}
  /\ lightweight_key_details =
        {[device_key |-> 1, algorithm |-> "AsconAead128",
          key |-> Bytes(16, 17)]}
  /\ device_key_seq = 1
  /\ advisory_lock = [k \in AdminDeviceIds |-> NoAdmin]
  /\ tx = [a \in Admins |-> IdleTx]

\* The admin of the datagram service's specification works on DevA's keys.
key_admin(a) ==
  \/ \E p \in {q \in NewDeviceKeyKinds : q.key # Bytes(12, 51)} :
        create_lock(a, DevA, p)
  \/ create_check_next(a)
  \/ create_check_active(a)
  \/ create_insert_key(a)
  \/ create_insert_details(a)
  \/ \E k \in 1..MaxKeyRows : delete_check_active(a, DevA, k)
  \/ delete_select(a)
  \/ delete_row(a)
  \/ tx_commit(a)
  \/ tx_rollback(a)

Next ==
  \/ udp_loop
  \/ key_admin("a1")

Spec == Init /\ [][Next]_vars

InitCodec ==
  /\ InitCatalog
  /\ udp = IdleUdp
  /\ sent = 0
  /\ rest = [w \in RestWorkers |-> IdleRest]
  /\ cancel = FALSE
  /\ device_key = {}
  /\ lightweight_key_details = {}
  /\ device_key_seq = 0
  /\ advisory_lock = [k \in AdminDeviceIds |-> NoAdmin]
  /\ tx = [a \in Admins |-> IdleTx]
  /\ codec \in {[IdleCodec EXCEPT !.pc = "input", !.key_type = alg,
                                  !.device_id = dev, !.opcode = op,
                                  !.operation = pt, !.key = k] :
                  alg \in CryptoAlgorithms, dev \in CodecDeviceIds,
                  op \in CodecOpcodes, pt \in CodecOperations,
                  k \in CodecKeys}

NextCodec ==
  \/ codec_encode
  \/ codec_decode

SpecCodec == InitCodec /\ [][NextCodec]_vars

\* The codec on envelopes from the wire.
WireInputs ==
  {[IdleCodec EXCEPT !.pc = "input", !.key_type = alg, !.device_id = dev,
                     !.opcode = op, !.operation = pt,
                     !.key = Bytes(16, 17)] :
     alg \in CryptoAlgorithms, dev \in {23, 70000},
     op \in {GetDeviceInfoRequest, 65535}, pt \in {<<>>, <<1, 2, 3>>}}

InitWire ==
  /\ InitCatalog
  /\ udp = IdleUdp
  /\ sent = 0
  /\ rest = [w \in RestWorkers |-> IdleRest]
  /\ cancel = FALSE
  /\ device_key = {}
  /\ lightweight_key_details = {}
  /\ device_key_seq = 0
  /\ advisory_lock = [k \in AdminDeviceIds |-> NoAdmin]
  /\ tx = [a \in Admins |-> IdleTx]
  /\ codec \in WireInputs

NextWire ==
  \/ codec_encode
  \/ codec_tamper_header
  \/ codec_tamper_ciphertext
  \/ codec_craft
  \/ codec_receive

SpecWire == InitWire /\ [][NextWire]_vars

(***************************************************************************)
(* The datagram service alone, on catalogs that hold keys of every status  *)
(* and a firmware image larger than a response buffer.                     *)
(***************************************************************************)
\* The keys of the catalogs below.
KeyActive == Bytes(16, 17)

KeyNext == Bytes(16, 34)

KeyExpired == Bytes(16, 51)

KeyOfDevB == Bytes(16, 68)

\* The bytes of the large firmware image.
LargeImage == [i \in 1..1020 |-> i % 251]

\* A lightweight Ascon key row and its details row.
seed_key(id, dev, status, key) ==
  [row |-> [id |-> id, device |-> dev, key_type |-> "LIGHTWEIGHT",
            status |-> status],
   details |-> {[device_key |-> id, algorithm |-> "AsconAead128",
                 key |-> key]}]

\* A TLS key row: it has no lightweight details.
seed_tls(id, dev, status) ==
  [row |-> [id |-> id, device |-> dev, key_type |-> "TLS",
            status |-> status],
   details |-> {}]

\* The key sets the service is started on.  DevB always holds an ACTIVE key;
\* DevA holds an ACTIVE key alone, next to a NEXT and an EXPIRED key, only a
\* NEXT key, or an ACTIVE TLS key next to a NEXT lightweight key.
DeviceSeeds ==
  { {seed_key(1, DevB, "ACTIVE", KeyOfDevB),
     seed_key(2, DevA, "ACTIVE", KeyActive)},
    {seed_key(1, DevB, "ACTIVE", KeyOfDevB),
     seed_key(2, DevA, "EXPIRED", KeyExpired),
     seed_key(3, DevA, "ACTIVE", KeyActive),
     seed_key(4, DevA, "NEXT", KeyNext)},
    {seed_key(1, DevB, "ACTIVE", KeyOfDevB),
     seed_key(2, DevA, "NEXT", KeyNext)},
    {seed_key(1, DevB, "ACTIVE", KeyOfDevB),
     seed_tls(2, DevA, "ACTIVE"),
     seed_key(3, DevA, "NEXT", KeyActive)} }

InitDevice ==
  /\ device = (DevA :> [name |-> "a", type_ |-> 1, firmware |-> None,
                        desired_firmware |-> 1, status |-> "ACTIVE"])
           @@ (DevB :> [name |-> "b", type_ |-> 1, firmware |-> Some(2),
                        desired_firmware |-> 2, status |-> "INACTIVE"])
  /\ firmware = (1 :> [name |-> "app", version |-> "1", file_id |-> "f1",
                      size |-> 3])
             @@ (2 :> [name |-> "app", version |-> "2", file_id |-> "f2",
                         size |-> 0])
             @@ (3 :> [name |-> "big", version |-> "1", file_id |-> "f3",
                         size |-> 1020])
             @@ (4 :> [name |-> "lost", version |-> "1", file_id |-> "f4",
                         size |-> 3])
  /\ blob = ("f1" :> <<10, 20, 30>>) @@ ("f2" :> <<>>)
            @@ ("f3" :> LargeImage)
  /\ firmware_seq = 4
  /\ InitIdle
  /\ \E seed \in DeviceSeeds :
        /\ device_key = {k.row : k \in seed}
        /\ lightweight_key_details = UNION {k.details : k \in seed}
        /\ device_key_seq = Cardinality(seed)
  /\ advisory_lock = [k \in AdminDeviceIds |-> NoAdmin]
  /\ tx = [a \in Admins |-> IdleTx]

\* The operations a device asks for in this specification.
DeviceRequests(dev) ==
  { <<GetDeviceInfoRequest, get_device_info_request(dev)>>,
    <<GetDeviceInfoRequest, get_device_info_request(DevA + DevB - dev)>>,
    <<GetDeviceInfoRequest, get_device_info_request(DevGone)>>,
    <<GetDeviceInfoRequest, enc_array(0)>>,
    <<SetDeviceInfoRequest, set_device_info_request(1, 0)>>,
    <<SetDeviceInfoRequest, set_device_info_request(2, 1)>>,
    <<SetDeviceInfoRequest, set_device_info_request(1, 2)>>,
    <<SetDeviceInfoRequest, set_device_info_request(1, 3)>>,
    <<SetDeviceInfoRequest, set_device_info_request(1, 9)>>,
    <<SetDeviceInfoRequest, set_device_info_request(2, 255)>>,
    <<SetDeviceInfoRequest, set_device_info_request(1, 256)>>,
    <<SetDeviceInfoRequest, set_device_info_request(5, 0)>>,
    <<SetDeviceInfoRequest, set_device_info_request(5, 9)>>,
    <<Invalid, <<>>>>,
    <<Error, encode_operation_error(InternalError)>>,
    <<2, enc_array(1) \o enc_uint(1)>>,
    <<5, <<>>>>,
    <<GetDeviceInfoResponse, get_device_info_request(dev)>>,
    <<SetDeviceInfoResponse, set_device_info_request(2, 1)>>,
    <<GetFirmwareResponse, get_firmware_request(1, 0, 5)>>,
    <<12, set_device_info_request(2, 1)>>,
    <<65535, <<>>>>,
    <<GetFirmwareRequest, get_firmware_request(1, 0, 5)>>,
    <<GetFirmwareRequest, get_firmware_request(1, 1, 2)>>,
    <<GetFirmwareRequest, get_firmware_request(1, 1, 1)>>,
    <<GetFirmwareRequest, get_firmware_request(1, 3, 4)>>,
    <<GetFirmwareRequest, get_firmware_request(1, 7, 1)>>,
    <<GetFirmwareRequest, get_firmware_request(1, 0, 0)>>,
    <<GetFirmwareRequest, get_firmware_request(1, 0, MaxFirmwareLength)>>,
    <<GetFirmwareRequest, get_firmware_request(1, 0, MaxFirmwareLength + 1)>>,
    <<GetFirmwareRequest, get_firmware_request(2, 0, 1)>>,
    <<GetFirmwareRequest, get_firmware_request(3, 1000, 100)>>,
    <<GetFirmwareRequest, get_firmware_request(3, 20, 1000)>>,
    <<GetFirmwareRequest, get_firmware_request(3, 0, 1020)>>,
    <<GetFirmwareRequest, get_firmware_request(4, 0, 1)>>,
    <<GetFirmwareRequest, get_firmware_request(5, 0, 1)>>,
    <<GetFirmwareRequest, get_firmware_request(5, 7, MaxFirmwareLength + 1)>> }

\* The datagrams of this specification: DevA's requests under its ACTIVE
\* key; one request under its NEXT and its EXPIRED key, under the ACTIVE
\* key with the other algorithm's tag, and from a device without a row;
\* and two requests of DevB.
DeviceDatagrams ==
  {device_datagram("AsconAead128", KeyActive, DevA, r[1], r[2]) :
      r \in DeviceRequests(DevA)}
  \cup {device_datagram("AsconAead128", k, DevA, GetDeviceInfoRequest,
                        get_device_info_request(DevA)) :
           k \in {KeyNext, KeyExpired}}
  \cup {device_datagram("AesGcm128", KeyActive, DevA, GetDeviceInfoRequest,
                        get_device_info_request(DevA)),
        device_datagram("AsconAead128", KeyActive, DevGone,
                        GetDeviceInfoRequest,
                        get_device_info_request(DevGone)),
        device_datagram("AsconAead128", KeyOfDevB, DevB,
                        SetDeviceInfoRequest, set_device_info_request(1, 2)),
        device_datagram("AsconAead128", KeyOfDevB, DevB,
                        GetDeviceInfoRequest, get_device_info_request(DevB))}

ReceivedDevice ==
  {[dgram |-> dg, env |-> envelope(dg), addr |-> PeerA] : dg \in DeviceDatagrams}

NextDevice ==
  \/ \E rx \in ReceivedDevice : udp_recv(rx)
  \/ udp_key
  \/ udp_handle
  \/ udp_file
  \/ udp_send

SpecDevice == InitDevice /\ [][NextDevice]_vars

(***************************************************************************)
(* The datagram service next to two REST workers that upload and delete    *)
(* firmware.                                                               *)
(***************************************************************************)
\* The multipart forms of the uploads: the (name, version) of a row of the
\* catalog, a new (name, version), and a form without file content.
Uploads ==
  { [name |-> "app", version |-> "1", file |-> <<7, 8>>],
    [name |-> "app", version |-> "3", file |-> <<7, 8, 9, 10>>],
    [name |-> "app", version |-> "3", file |-> <<>>] }

\* The ids of the delete requests: a firmware a device refers to, the
\* firmware the uploads create, and an id of no row.
DeletedIds == {1, 3, 4, 9}

\* What the pool and the database answer to an insert.
InsertOutcomes == {"inserted", "no connection", "database error"}

\* The firmware requests of the device: for a firmware of the start, for
\* the first uploaded one, and for an id of no row.
FirmwareRequests ==
  { get_firmware_request(1, 1, 5),
    get_firmware_request(1, 0, MaxFirmwareLength + 1),
    get_firmware_request(3, 1, 2),
    get_firmware_request(3, 0, MaxFirmwareLength + 1),
    get_firmware_request(9, 0, 1),
    get_firmware_request(9, 5, MaxFirmwareLength + 1) }

FirmwareDatagrams ==
  {device_datagram("AsconAead128", KeyActive, DevA, GetFirmwareRequest, r) :
      r \in FirmwareRequests}

ReceivedFirmware ==
  {[dgram |-> d, env |-> envelope(d), addr |-> PeerA] : d \in FirmwareDatagrams}

InitFirmware ==
  /\ InitCatalog
  /\ InitIdle
  /\ device_key = {[id |-> 1, device |-> DevA, key_type |-> "LIGHTWEIGHT",
                    status |-> "ACTIVE"]}
  /\ lightweight_key_details =
        {[device_key |-> 1, algorithm |-> "AsconAead128",
          key |-> KeyActive]}
  /\ device_key_seq = 1
  /\ advisory_lock = [k \in AdminDeviceIds |-> NoAdmin]
  /\ tx = [a \in Admins |-> IdleTx]

NextFirmware ==
  \/ \E rx \in ReceivedFirmware : udp_recv(rx)
  \/ udp_key
  \/ udp_handle
  \/ udp_file
  \/ udp_send
  \/ \E w \in RestWorkers, form \in Uploads : create_firmware_write(w, form)
  \/ \E w \in RestWorkers, outcome \in InsertOutcomes :
        create_firmware_insert(w, outcome)
  \/ \E w \in RestWorkers, path_id \in DeletedIds :
        delete_firmware_row(w, path_id)
  \/ \E w \in RestWorkers : delete_firmware_file(w)

SpecFirmware == InitFirmware /\ [][NextFirmware]_vars

(***************************************************************************)
(* The datagram service and its shutdown.                                  *)
(***************************************************************************)
\* CborApi::shutdown: the token is cancelled; the join handle is awaited.
shutdown ==
  /\ ~cancel
  /\ cancel' = TRUE
  /\ UNCHANGED <<device, firmware, blob, firmware_seq, device_key,
                 lightweight_key_details, device_key_seq, advisory_lock, tx,
                 udp, sent, codec, rest>>

\* The loop leaving at whatever await it is suspended at.
udp_cancelled_at_any_await ==
  /\ cancel
  /\ udp.pc # "exit"
  /\ udp' = [IdleUdp EXCEPT !.pc = "exit"]
  /\ UNCHANGED <<device, firmware, blob, firmware_seq, device_key,
                 lightweight_key_details, device_key_seq, advisory_lock, tx,
                 sent, codec, rest, cancel>>

\* The cancelled() arm going round the loop again.
udp_cancelled_continue ==
  /\ cancel
  /\ udp.pc = "recv"
  /\ udp' = IdleUdp
  /\ UNCHANGED <<device, firmware, blob, firmware_seq, device_key,
                 lightweight_key_details, device_key_seq, advisory_lock, tx,
                 sent, codec, rest, cancel>>

\* The select! of udp_loop taking its cancelled() arm: break.
udp_cancelled ==
  /\ cancel
  /\ udp.pc = "recv"
  /\ udp' = [IdleUdp EXCEPT !.pc = "exit"]
  /\ UNCHANGED <<device, firmware, blob, firmware_seq, device_key,
                 lightweight_key_details, device_key_seq, advisory_lock, tx,
                 sent, codec, rest, cancel>>

\* The step the loop takes from one of its awaits.
udp_step(at) ==
  /\ udp.pc = at
  /\ \/ udp_key
     \/ udp_handle
     \/ udp_file
     \/ udp_send

\* The requests of this specification.
ShutdownRequests ==
  { <<GetDeviceInfoRequest, get_device_info_request(DevA)>>,
    <<SetDeviceInfoRequest, set_device_info_request(2, 1)>>,
    <<SetDeviceInfoRequest, set_device_info_request(1, 2)>>,
    <<SetDeviceInfoRequest, set_device_info_request(1, 9)>>,
    <<GetFirmwareRequest, get_firmware_request(1, 1, 5)>>,
    <<GetFirmwareRequest, get_firmware_request(4, 0, 1)>>,
    <<12, <<>>>> }

ReceivedShutdown ==
  {[dgram |-> d, env |-> envelope(d), addr |-> PeerA] :
     d \in {device_datagram("AsconAead128", KeyActive, DevA, r[1], r[2]) :
              r \in ShutdownRequests}
           \cup {device_datagram("AsconAead128", KeyNext, DevA,
                                 GetDeviceInfoRequest,
                                 get_device_info_request(DevA))}}

NextShutdown ==
  \/ \E rx \in ReceivedShutdown : udp_recv(rx)
  \/ udp_key
  \/ udp_handle
  \/ udp_file
  \/ udp_send
  \/ shutdown
  \/ udp_cancelled

\* The task of the loop is polled until it returns (shutdown awaits its
\* join handle), so a step the loop can take from an await is taken: weak
\* fairness of udp_step(at), written with its enabling condition
\* udp.pc = at in the place of ENABLED <<udp_step(at)>>_vars.  select!
\* takes a ready arm at random, so the cancelled() arm, ready at every turn
\* of the loop once the token is cancelled, is taken at some turn: strong
\* fairness of udp_cancelled.
SpecShutdown ==
  /\ InitDevice
  /\ [][NextShutdown]_vars
  /\ \A at \in {"key", "handle", "file", "send"} :
       []<>(udp.pc # at) \/ []<><<udp_step(at)>>_vars
  /\ SF_vars(udp_cancelled)

(***************************************************************************)
(* The datagram service with failing receives, response encryptions and    *)
(* sends.                                                                  *)
(***************************************************************************)
\* recv_from answers with an error: it is logged and the loop goes on.
udp_recv_failed ==
  /\ udp.pc = "recv"
  /\ udp' = [IdleUdp EXCEPT !.err = "RecvError"]
  /\ UNCHANGED <<device, firmware, blob, firmware_seq, device_key,
                 lightweight_key_details, device_key_seq, advisory_lock, tx,
                 sent, codec, rest, cancel>>

\* The handler has answered and cose_handler.encode_msg fails (getrandom):
\* the response is dropped; what the handler wrote stays written.
udp_encode_failed ==
  /\ udp.pc \in {"handle", "file"}
  /\ \E h \in {handle_operation(udp.device_id, udp.opcode,
                                udp.operation_bytes)} :
        IF udp.pc = "handle"
        THEN /\ h.resp # None
             /\ device' = h.device
        ELSE device' = device
  /\ udp' = [IdleUdp EXCEPT
               !.dgram = udp.dgram, !.err = "EncodingError",
               !.freed = encode_released(udp.cose_handler)
                         \o handler_released(udp.cose_handler)]
  /\ UNCHANGED <<firmware, blob, firmware_seq, device_key,
                 lightweight_key_details, device_key_seq, advisory_lock, tx,
                 sent, codec, rest, cancel>>

\* The cancelled send_to stopping the loop.
udp_send_failed_break ==
  /\ udp.pc = "send"
  /\ udp' = [IdleUdp EXCEPT !.pc = "exit", !.err = "SendError"]
  /\ UNCHANGED <<device, firmware, blob, firmware_seq, device_key,
                 lightweight_key_details, device_key_seq, advisory_lock, tx,
                 sent, codec, rest, cancel>>

\* send_to answers with an error: it is logged, nothing is sent.
udp_send_failed ==
  /\ udp.pc = "send"
  /\ udp' = [IdleUdp EXCEPT !.err = "SendError",
                            !.freed = handler_released(udp.cose_handler)]
  /\ UNCHANGED <<device, firmware, blob, firmware_seq, device_key,
                 lightweight_key_details, device_key_seq, advisory_lock, tx,
                 sent, codec, rest, cancel>>

\* A request of DevB, which holds an ACTIVE key on every catalog.
ValidDatagram ==
  device_datagram("AsconAead128", KeyOfDevB, DevB, GetDeviceInfoRequest,
                  get_device_info_request(DevB))

\* The datagrams of this specification: the valid one, one that does not
\* decode, one sealed under a key that is not the device's, one from a
\* device without a row, requests the handler refuses, and requests it
\* serves.
FaultyDatagrams ==
  {ValidDatagram, <<>>,
   device_datagram("AsconAead128", KeyExpired, DevB, GetDeviceInfoRequest,
                   get_device_info_request(DevB)),
   device_datagram("AsconAead128", KeyOfDevB, DevGone, GetDeviceInfoRequest,
                   get_device_info_request(DevGone)),
   device_datagram("AsconAead128", KeyOfDevB, DevB, SetDeviceInfoRequest,
                   set_device_info_request(5, 0)),
   device_datagram("AsconAead128", KeyOfDevB, DevB, SetDeviceInfoRequest,
                   set_device_info_request(1, 2)),
   device_datagram("AsconAead128", KeyOfDevB, DevB, GetFirmwareRequest,
                   get_firmware_request(4, 0, 1)),
   device_datagram("AsconAead128", KeyOfDevB, DevB, GetFirmwareRequest,
                   get_firmware_request(1, 1, 5)),
   device_datagram("AsconAead128", KeyOfDevB, DevB, 12, <<>>)}

ReceivedFaulty ==
  {[dgram |-> dg, env |-> envelope(dg), addr |-> PeerA] : dg \in FaultyDatagrams}

ValidReceived ==
  [dgram |-> ValidDatagram, env |-> envelope(ValidDatagram), addr |-> PeerA]

NextFaulty ==
  \/ \E rx \in ReceivedFaulty : udp_recv(rx)
  \/ udp_recv_failed
  \/ udp_key
  \/ udp_handle
  \/ udp_file
  \/ udp_encode_failed
  \/ udp_send
  \/ udp_send_failed

\* The task of the loop is polled until it returns: weak fairness of the
\* step the loop takes from an await, WF_vars(udp_step(at)), written with
\* its enabling condition udp.pc = at.
SpecFaulty ==
  /\ InitDevice
  /\ [][NextFaulty]_vars
  /\ \A at \in {"key", "handle", "file", "send"} :
       []<>(udp.pc # at) \/ []<><<udp_step(at)>>_vars

(***************************************************************************)
(* The datagram service while devices are deleted over REST.               *)
(***************************************************************************)
\* The requests of DevA in this specification.
OrphanRequests ==
  { <<GetDeviceInfoRequest, get_device_info_request(DevA)>>,
    <<SetDeviceInfoRequest, set_device_info_request(2, 1)>>,
    <<SetDeviceInfoRequest, set_device_info_request(5, 0)>>,
    <<SetDeviceInfoRequest, set_device_info_request(5, 9)>>,
    <<SetDeviceInfoRequest, set_device_info_request(0, 2)>>,
    <<SetDeviceInfoRequest, enc_array(1) \o enc_uint(5)>> }

ReceivedOrphan ==
  {[dgram |-> d, env |-> envelope(d), addr |-> PeerA] :
     d \in {device_datagram("AsconAead128", KeyActive, DevA, r[1], r[2]) :
              r \in OrphanRequests}}

NextOrphan ==
  \/ \E rx \in ReceivedOrphan : udp_recv(rx)
  \/ udp_key
  \/ udp_handle
  \/ udp_send
  \/ \E w \in RestWorkers, path_id \in {DevA, DevGone},
        rule \in {"cascade", "restrict"} : delete_device(w, path_id, rule)

SpecOrphan == InitDevice /\ [][NextOrphan]_vars

(***************************************************************************)
(* Admins creating LIGHTWEIGHT keys, and nothing else, on a fresh catalog.  *)
(* A create that waits for the advisory lock is one whose create_lock is   *)
(* not enabled.                                                            *)
(***************************************************************************)
LightweightKinds ==
  {p \in NewDeviceKeyKinds : p.key_type = "LIGHTWEIGHT"}

NextCreate ==
  \E a \in Admins :
     \/ \E d \in {DevA, DevB}, p \in LightweightKinds :
           create_lock(a, d, p)
     \/ create_check_next(a)
     \/ create_check_active(a)
     \/ create_insert_key(a)
     \/ create_insert_details(a)
     \/ tx_commit(a)
     \/ tx_rollback(a)

SpecCreate == InitAdmin /\ [][NextCreate]_vars

(***************************************************************************)
(* The datagram service with requests from two socket addresses.  Each     *)
(* datagram comes from one address; each device is heard from both.        *)
(***************************************************************************)
PeerDatagrams ==
  { [dgram |-> device_datagram("AsconAead128", KeyActive, DevA,
                               GetDeviceInfoRequest,
                               get_device_info_request(DevA)),
     addr |-> PeerA],
    [dgram |-> device_datagram("AsconAead128", KeyActive, DevA,
                               SetDeviceInfoRequest,
                               set_device_info_request(1, 0)),
     addr |-> PeerB],
    [dgram |-> device_datagram("AsconAead128", KeyActive, DevA,
                               SetDeviceInfoRequest,
                               set_device_info_request(1, 3)),
     addr |-> PeerB],
    [dgram |-> device_datagram("AsconAead128", KeyOfDevB, DevB,
                               GetDeviceInfoRequest,
                               get_device_info_request(DevB)),
     addr |-> PeerB],
    [dgram |-> device_datagram("AsconAead128", KeyOfDevB, DevB,
                               SetDeviceInfoRequest,
                               set_device_info_request(1, 2)),
     addr |-> PeerA],
    [dgram |-> device_datagram("AsconAead128", KeyNext, DevA,
                               GetDeviceInfoRequest,
                               get_device_info_request(DevA)),
     addr |-> PeerB],
    [dgram |-> <<130>> \o enc_bytes(<<160>>) \o enc_map(0), addr |-> PeerA] }

ReceivedPeers ==
  {[dgram |-> d.dgram, env |-> envelope(d.dgram), addr |-> d.addr] :
     d \in PeerDatagrams}

NextPeers ==
  \/ \E rx \in ReceivedPeers : udp_recv(rx)
  \/ udp_key
  \/ udp_handle
  \/ udp_send

SpecPeers == InitDevice /\ [][NextPeers]_vars

(***************************************************************************)
(* Claims about the key catalog.                                           *)
(***************************************************************************)
keys_of(d, st) ==
  {r \in device_key : r.device = d /\ r.status = st}

\* C1: in every reachable state, under any interleaving of create_device_key
\* and delete_device_key transactions of concurrent admins, each device has
\* at most one DeviceKey row with status ACTIVE and at most one with NEXT.
C1_AtMostOneActiveOneNext ==
  \A d \in AdminDeviceIds :
     /\ Cardinality(keys_of(d, "ACTIVE")) <= 1
     /\ Cardinality(keys_of(d, "NEXT")) <= 1

\* A device holding an ACTIVE and a NEXT key while a create and a delete
\* transaction for it are both open.
C1_Witness ==
  \E d \in DeviceIds, a \in Admins, b \in Admins :
     /\ keys_of(d, "ACTIVE") # {} /\ keys_of(d, "NEXT") # {}
     /\ tx[a].op = "create" /\ tx[a].device_id = d
     /\ tx[b].op = "delete" /\ tx[b].device_id = d

\* C2: every transaction that mutates a device's key set, create_device_key
\* and delete_device_key alike, holds the device's advisory lock from before
\* its first read of the key set until it commits or rolls back.
C2_KeySetTransactionsHoldLock ==
  \A a \in Admins :
     tx[a].op \in {"create", "delete"} =>
        advisory_lock[tx[a].device_id] = a

\* C5: every stored LightweightKeyDetails row has a key of the length its
\* algorithm's AEAD primitive requires, and a create request with any other
\* key length is rejected (it never reaches its inserts).
C5_StoredKeyLengthIsAeadKeyLength ==
  /\ \A l \in lightweight_key_details : Len(l.key) = key_len(l.algorithm)
  /\ \A a \in Admins :
        (tx[a].op = "create" /\ tx[a].payload.key_type = "LIGHTWEIGHT"
         /\ Len(tx[a].payload.key) # key_len(tx[a].payload.algorithm))
        => tx[a].pc = "rollback"

\* The key rows of device d.
device_keys(d) ==
  {r \in device_key : r.device = d}

\* C3: starting from a device with no keys, creates of valid LIGHTWEIGHT keys
\* (key length = the algorithm's key length) store ACTIVE first, NEXT second,
\* and are rejected with Conflict, changing nothing, while a NEXT row exists.
C3_CreateSequence ==
  [][\A a \in Admins :
       (/\ tx[a].op = "create" /\ tx'[a].op = "idle"
        /\ tx[a].payload.key_type = "LIGHTWEIGHT"
        /\ Len(tx[a].payload.key) = key_len(tx[a].payload.algorithm)
        /\ tx[a].device_id \in DOMAIN device)
       => LET d == tx[a].device_id
              before == device_keys(d)
              after == {r \in device_key' : r.device = d}
          IN /\ before = {} =>
                   \E r \in after : after = {r} /\ r.status = "ACTIVE"
             /\ (before # {} /\ \A r \in before : r.status = "ACTIVE") =>
                   \E r \in after \ before :
                      after = before \cup {r} /\ r.status = "NEXT"
             /\ (\E r \in before : r.status = "NEXT") =>
                   /\ tx[a].res = "CONFLICT"
                   /\ device_key' = device_key
                   /\ lightweight_key_details' = lightweight_key_details]_vars

\* The same sequence for the keys the length check of create_device_key
\* lets through: it is the length check alone that breaks C3.
CreateSequenceOfAcceptedKeys ==
  [][\A a \in Admins :
       (/\ tx[a].op = "create" /\ tx'[a].op = "idle"
        /\ tx[a].payload.key_type = "LIGHTWEIGHT"
        /\ payload_accepted(tx[a].payload)
        /\ tx[a].device_id \in DOMAIN device)
       => LET d == tx[a].device_id
              before == device_keys(d)
              after == {r \in device_key' : r.device = d}
          IN /\ before = {} =>
                   \E r \in after : after = {r} /\ r.status = "ACTIVE"
             /\ (before # {} /\ \A r \in before : r.status = "ACTIVE") =>
                   \E r \in after \ before :
                      after = before \cup {r} /\ r.status = "NEXT"
             /\ (\E r \in before : r.status = "NEXT") =>
                   /\ tx[a].res = "CONFLICT"
                   /\ device_key' = device_key
                   /\ lightweight_key_details' = lightweight_key_details]_vars

\* C4: delete_device_key on an ACTIVE key answers Conflict and leaves every
\* key row as it was; on a NEXT or EXPIRED key of that device it succeeds
\* and removes exactly that key row (and its details row).
C4_DeleteByStatus ==
  [][\A a \in Admins :
       (tx[a].op = "delete" /\ tx'[a].op = "idle")
       => LET rows == {r \in device_key :
                         r.id = tx[a].path_id /\ r.device = tx[a].device_id}
          IN /\ (\E r \in rows : r.status = "ACTIVE") =>
                   /\ tx[a].res = "CONFLICT"
                   /\ device_key' = device_key
                   /\ lightweight_key_details' = lightweight_key_details
             /\ (\E r \in rows : r.status \in {"NEXT", "EXPIRED"}) =>
                   /\ tx[a].res = "OK"
                   /\ device_key' = device_key \ rows
                   /\ lightweight_key_details' =
                        {l \in lightweight_key_details :
                            l.device_key # tx[a].path_id}]_vars

\* A delete of an EXPIRED key about to commit, next to an ACTIVE key that
\* must stay.
C4_Witness ==
  \E a \in Admins, r \in device_key :
     /\ tx[a].op = "delete" /\ tx[a].pc = "commit"
     /\ r.id = tx[a].path_id /\ r.device = tx[a].device_id
     /\ r.status = "EXPIRED"
     /\ keys_of(r.device, "ACTIVE") # {}

(***************************************************************************)
(* Claims about the datagram service.                                      *)
(***************************************************************************)
\* The request and the response of the loop as their envelopes, opened with
\* the key the handler kept at decrypt.
kept_key_provider ==
  StaticKeyProvider(unwrap(udp.cose_handler.device_id),
                    unwrap(udp.cose_handler.key_type),
                    unwrap(udp.cose_handler.key_bytes))

\* C6: a datagram whose decode-and-decrypt fails (structure, header,
\* algorithm, critical header, key lookup, authentication) is dropped: the
\* loop is back in recv_from with no response datagram sent, and no table
\* of the catalog and no blob has changed.
C6_FailedDecodeIsDropped ==
  [][(/\ udp' # udp
      /\ \/ /\ udp.pc = "recv"
            /\ \E rx \in Received :
                  rx.dgram = udp'.dgram /\ rx.env.err # "none"
         \/ udp.pc = "key" /\ decode_msg(DbKeyProvider, udp.dgram).err # "none")
     => /\ udp'.pc = "recv"
        /\ udp'.response_buf = <<>>
        /\ sent' = sent
        /\ UNCHANGED <<device, firmware, blob, device_key,
                       lightweight_key_details, device_key_seq>>]_vars

\* A datagram of well-formed structure, for a device holding an ACTIVE key of
\* its algorithm, has been dropped because it does not authenticate.
C6_Witness ==
  /\ udp.pc = "recv"
  /\ udp.err = "DecodingError"
  /\ envelope(udp.dgram).err = "none"
  /\ db_key_for_device(envelope(udp.dgram).device_id,
                       envelope(udp.dgram).key_type).err = "none"

\* C7: the response about to be sent opens with exactly the device id,
\* algorithm and key bytes the request was decrypted with, and the catalog
\* was asked for the key once, whatever an admin did to the device's key
\* set in between.
C7_ResponseUsesKeyOfRequest ==
  udp.pc = "send" =>
     \E env \in {envelope(udp.dgram)} :
        \E kp \in {StaticKeyProvider(env.device_id, env.key_type,
                                     unwrap(udp.cose_handler.key_bytes))} :
           /\ decode_msg(kp, udp.dgram).err = "none"
           /\ decode_msg(kp, udp.response_buf).err = "none"
           /\ udp.lookups = 1

\* A response is about to be sent for a device that got a new key row after
\* the request was decrypted.
C7_Witness ==
  /\ udp.pc = "send"
  /\ \E r \in device_key :
        r.device = udp.device_id /\ r.id > udp.seq_at_decrypt

\* C8: the response to a GetDeviceInfo request describes the device of the
\* envelope's device_id, also when the request's plaintext names another.
C8_GetDeviceInfoDescribesEnvelopeDevice ==
  (/\ udp.pc = "send"
   /\ udp.opcode = GetDeviceInfoRequest
   /\ decode_get_device_info_request(udp.operation_bytes).ok)
  => \E res \in {decode_msg(kept_key_provider, udp.response_buf)} :
        /\ res.opcode = GetDeviceInfoResponse
        /\ res.pt = encode_get_device_info_response(
                      [firmware |-> device[udp.device_id].firmware,
                       desired_firmware |->
                          device[udp.device_id].desired_firmware,
                       status |-> status_u8(device[udp.device_id].status)])

\* The response to a request that decrypted: it opens for the request's
\* device, algorithm and key; it is an Error or the response of the
\* request's opcode; an Error carries array(1, code) with code in 0..6; and
\* an opcode without a handler is answered with an Error.
ErrorResponseWellFormed ==
  udp.pc = "send" =>
     \E res \in {decode_msg(kept_key_provider, udp.response_buf)} :
        /\ res.err = "none"
        /\ res.device_id = envelope(udp.dgram).device_id
        /\ res.key_type = envelope(udp.dgram).key_type
        /\ res.opcode = Error \/ res.opcode = udp.opcode + 1
        /\ res.opcode = Error =>
              \E code \in 0..6 : res.pt = <<129, code>>
        /\ udp.opcode \notin {GetDeviceInfoRequest, SetDeviceInfoRequest,
                              GetFirmwareRequest}
           => res.opcode = Error

\* C9: a request that decrypted and whose handler fails is answered, never
\* dropped, and its answer is an envelope of opcode 1 (Error) with
\* plaintext array(1, code), code in 0..6, sealed for the request's device
\* with the request's key and algorithm.
C9_HandlerFailureIsAnsweredWithError ==
  /\ []ErrorResponseWellFormed
  /\ [][(udp.pc \in {"handle", "file"} /\ udp' # udp)
         => udp'.pc \in {"file", "send"}]_vars

\* An Error response with code InternalError is about to be sent.
C9_Witness ==
  /\ udp.pc = "send"
  /\ decode_msg(kept_key_provider, udp.response_buf).opcode = Error
  /\ decode_msg(kept_key_provider, udp.response_buf).pt
        = <<129, InternalError>>

(***************************************************************************)
(* Claims about the codec.                                                 *)
(***************************************************************************)
\* C10: decode_msg of what encode_msg answered for algorithm A, device dev,
\* opcode op and plaintext pt, with a provider holding the same key for
\* (dev, A), succeeds with dev, op, pt and key type A.
C10_RoundTrip ==
  codec.pc = "decoded" =>
     /\ codec.res.err = "none"
     /\ codec.res.device_id = codec.device_id
     /\ codec.res.opcode = codec.opcode
     /\ codec.res.pt = codec.operation
     /\ codec.res.key_type = codec.key_type
     /\ codec.res.key = codec.key

\* A round trip done with AES-GCM-128, a four-byte device id, a two-byte
\* opcode and a plaintext whose length takes a byte of its own.
C10_Witness ==
  /\ codec.pc = "decoded"
  /\ codec.key_type = "AesGcm128"
  /\ codec.device_id = 70000
  /\ codec.opcode = 65535
  /\ Len(codec.operation) = 24

(***************************************************************************)
(* Claims about envelopes changed or written otherwise on the wire.        *)
(***************************************************************************)
\* C11 as stated: a valid envelope with one byte of its protected header
\* changed fails decode_msg with DecryptionError or InvalidMessage, and no
\* plaintext is yielded.
C11_HeaderChangeFailsAsStated ==
  (codec.pc = "received" /\ codec.tamper = "header")
  => /\ codec.res.err \in {"DecryptionError", "InvalidMessage"}
     /\ codec.res.pt = <<>>

\* C11, amended: a valid envelope with one byte of its protected header
\* changed fails decode_msg, with DecryptionError when the header still
\* parses (the AAD is over the received bytes), or with the error of the
\* check the changed byte breaks: InvalidMessage, UnknownHeaderKey,
\* UnknownAlgorithm, UnknownCriticalHeader or MissingHeaderField; no
\* plaintext is yielded.
C11_HeaderChangeFails ==
  (codec.pc = "received" /\ codec.tamper = "header")
  => /\ codec.res.err \in {"DecryptionError", "InvalidMessage",
                           "UnknownHeaderKey", "UnknownAlgorithm",
                           "UnknownCriticalHeader", "MissingHeaderField"}
     /\ codec.res.pt = <<>>
     /\ (codec.lookups = 1 => codec.res.err = "DecryptionError")

\* A changed header that still parses into the same values (the critical
\* header list now names Opcode twice) was refused at the tag.
C11_Witness ==
  /\ codec.pc = "received"
  /\ codec.tamper = "header"
  /\ codec.res.err = "DecryptionError"
  /\ codec.lookups = 1
  /\ envelope(codec.msg).device_id = codec.device_id
  /\ envelope(codec.msg).opcode = codec.opcode
  /\ envelope(codec.msg).nonce = Bytes(nonce_len(codec.key_type), 1)

\* C12: a valid envelope with one byte of its ciphertext-and-tag field
\* changed, the length kept, fails decode_msg with DecryptionError, and no
\* plaintext is yielded.
C12_CiphertextChangeFails ==
  (codec.pc = "received" /\ codec.tamper = "ciphertext")
  => /\ codec.res.err = "DecryptionError"
     /\ codec.res.pt = <<>>

\* A changed byte of the ciphertext body (not of the tag) was refused.
C12_Witness ==
  /\ codec.pc = "received"
  /\ codec.tamper = "ciphertext"
  /\ codec.res.err = "DecryptionError"
  /\ codec.operation = <<1, 2, 3>>
  /\ \E i \in 1..3 :
        envelope(codec.msg).ct[i]
          # encrypt(codec.key_type, codec.key, envelope(codec.msg).nonce,
                    envelope(codec.msg).aad, codec.operation).val[i]

\* The first entry of a critical header list that is neither DeviceId nor
\* Opcode, as a set: empty when every entry is one of the two.
first_unknown(critical) ==
  {critical[i] : i \in {j \in DOMAIN critical :
      /\ critical[j] \notin {DeviceId, Opcode}
      /\ \A k \in 1..(j - 1) : critical[k] \in {DeviceId, Opcode}}}

\* The decoder reads the header up to its critical header list: the keys
\* before the list are headers it knows.
list_reached(craft) ==
  \E i \in DOMAIN craft.keys :
     /\ craft.keys[i] = CriticalHeaderList
     /\ \A k \in 1..(i - 1) : craft.keys[k] \in
           {EncryptionAlgorithm, DeviceId, Opcode, EncryptionNonce}

\* C13 as stated: decode_msg fails with UnknownCriticalHeader for every
\* envelope whose critical header list holds a value other than 8608 and
\* 8633; no key is looked up and nothing is decrypted.
C13_UnknownCriticalHeaderAsStated ==
  (/\ codec.pc = "received"
   /\ codec.tamper = "crafted"
   /\ \E i \in DOMAIN codec.craft.keys :
         codec.craft.keys[i] = CriticalHeaderList
   /\ first_unknown(codec.craft.critical) # {})
  => /\ codec.res.err = "UnknownCriticalHeader"
     /\ codec.lookups = 0
     /\ codec.res.pt = <<>>

\* C13, amended: an envelope whose critical header list holds a value other
\* than 8608 and 8633 is refused before any key is looked up or anything is
\* decrypted; the error is UnknownCriticalHeader when the decoder reaches
\* the list and the first such value is a uint16, InvalidMessage when that
\* value is wider than uint16.
C13_UnknownCriticalHeader ==
  (/\ codec.pc = "received"
   /\ codec.tamper = "crafted"
   /\ \E i \in DOMAIN codec.craft.keys :
         codec.craft.keys[i] = CriticalHeaderList
   /\ first_unknown(codec.craft.critical) # {})
  => /\ codec.res.err # "none"
     /\ codec.lookups = 0
     /\ codec.res.pt = <<>>
     /\ list_reached(codec.craft) =>
           \A v \in first_unknown(codec.craft.critical) :
              codec.res.err = IF v <= 65535 THEN "UnknownCriticalHeader"
                              ELSE "InvalidMessage"

\* The list [8608, 8633, 42] was refused with UnknownCriticalHeader.
C13_Witness ==
  /\ codec.pc = "received"
  /\ codec.tamper = "crafted"
  /\ codec.craft.critical = <<DeviceId, Opcode, 42>>
  /\ codec.res.err = "UnknownCriticalHeader"
  /\ codec.lookups = 0

\* C14: an envelope whose protected header lacks one of the five entries
\* (algorithm 1, critical headers 2, nonce 5, device id 8608, opcode 8633)
\* is refused with MissingHeaderField and never decrypted.
C14_AllFiveHeadersRequired ==
  (/\ codec.pc = "received"
   /\ codec.tamper = "crafted"
   /\ \E k \in {EncryptionAlgorithm, CriticalHeaderList, EncryptionNonce,
                DeviceId, Opcode} :
         \A i \in DOMAIN codec.craft.keys : codec.craft.keys[i] # k)
  => /\ codec.res.err = "MissingHeaderField"
     /\ codec.lookups = 0
     /\ codec.res.pt = <<>>

(***************************************************************************)
(* Claims about the datagram service on seeded catalogs.                   *)
(***************************************************************************)
\* The keys of the ACTIVE LIGHTWEIGHT rows of device d stored for algorithm
\* alg.
active_keys(d, alg) ==
  {l.key : l \in {x \in lightweight_key_details :
      /\ x.algorithm = alg
      /\ \E r \in device_key :
            /\ r.id = x.device_key /\ r.device = d
            /\ r.status = "ACTIVE" /\ r.key_type = "LIGHTWEIGHT"}}

\* The keys under which the datagram dg opens, out of the set keys.
opening_keys(dg, keys) ==
  {k \in keys :
     decode_msg(StaticKeyProvider(envelope(dg).device_id,
                                  envelope(dg).key_type, k), dg).err = "none"}

\* C15: a datagram is decrypted only with the key of the envelope's device
\* whose row is ACTIVE and LIGHTWEIGHT and stored for the envelope's
\* algorithm, and the handler keeps that key; a datagram for which there is
\* no such key, or which does not open under it (sealed under a NEXT or an
\* EXPIRED key), is dropped: no response, the loop back in recv_from.
C15_OnlyActiveKeyDecrypts ==
  [][(udp.pc = "key" /\ udp' # udp)
     => IF opening_keys(udp.dgram,
                        active_keys(envelope(udp.dgram).device_id,
                                    envelope(udp.dgram).key_type)) # {}
        THEN /\ udp'.pc = "handle"
             /\ udp'.cose_handler.key_bytes
                  \subseteq active_keys(envelope(udp.dgram).device_id,
                                        envelope(udp.dgram).key_type)
             /\ udp'.cose_handler.key_bytes # None
        ELSE /\ udp'.pc = "recv"
             /\ udp'.response_buf = <<>>
             /\ sent' = sent]_vars

\* A datagram sealed under the device's NEXT key, which differs from its
\* ACTIVE key, has been dropped.
C15_Witness ==
  /\ udp.pc = "recv"
  /\ udp.err = "DecodingError"
  /\ active_keys(envelope(udp.dgram).device_id,
                 envelope(udp.dgram).key_type) # {}
  /\ opening_keys(udp.dgram,
                  {l.key : l \in {x \in lightweight_key_details :
                      \E r \in device_key :
                         /\ r.id = x.device_key /\ r.status = "NEXT"
                         /\ r.device = envelope(udp.dgram).device_id}})
       # {}

\* C16: every buffer that held key bytes while a datagram was processed
\* (the key loaded from the catalog row, the provider's copy, the copy
\* handed to the codec and the AEAD, the handler's copy, the copies made to
\* seal the response) holds zeros when it is released.
C16_KeyBuffersZeroedAtRelease ==
  \A i \in DOMAIN udp.freed :
     udp.freed[i].bytes = zeroize(udp.freed[i].bytes)

\* A GetDeviceInfoResponse as a device reads it: array(3, firmware or null,
\* desired_firmware, status).
decode_get_device_info_response(operation) ==
  LET bad == [ok |-> FALSE, firmware |-> None, desired_firmware |-> 0,
              status |-> 0]
      arr == dec_array(operation, 0)
      null == arr.pos < Len(operation) /\ operation[arr.pos + 1] = 246
      fw == IF null THEN [ok |-> TRUE, val |-> 0, pos |-> arr.pos + 1]
            ELSE dec_u32(operation, arr.pos)
      desired == dec_u32(operation, fw.pos)
      st == dec_u8(operation, desired.pos)
  IN IF ~arr.ok \/ arr.val # 3 THEN bad
     ELSE IF ~fw.ok THEN bad
     ELSE IF ~desired.ok THEN bad
     ELSE IF ~st.ok \/ st.pos # Len(operation) THEN bad
     ELSE [ok |-> TRUE, firmware |-> IF null THEN None ELSE Some(fw.val),
           desired_firmware |-> desired.val, status |-> st.val]

\* The response about to be sent, opened with the key the handler kept.
response == decode_msg(kept_key_provider, udp.response_buf)

\* The same reading of the response of a loop state u.
response_of(u) ==
  decode_msg(StaticKeyProvider(unwrap(u.cose_handler.device_id),
                               unwrap(u.cose_handler.key_type),
                               unwrap(u.cose_handler.key_bytes)),
             u.response_buf)

\* The answer to a GetDeviceInfo request for a device with a row (the
\* device the request names, operation_handler.rs:100): opcode 7 with the
\* row's firmware (null when it has none), its desired firmware, and its
\* status as 0 for ACTIVE, 1 for INACTIVE, 2 for MAINTENANCE.
GetDeviceInfoAnswer ==
  \A req \in {decode_get_device_info_request(udp.operation_bytes)} :
    (/\ udp.pc = "send"
     /\ udp.opcode = GetDeviceInfoRequest
     /\ req.ok
     /\ req.device_id \in DOMAIN device)
    => /\ response.err = "none"
       /\ response.opcode = GetDeviceInfoResponse
       /\ decode_get_device_info_response(response.pt)
            = [ok |-> TRUE,
               firmware |-> device[req.device_id].firmware,
               desired_firmware |-> device[req.device_id].desired_firmware,
               status |-> CASE device[req.device_id].status = "ACTIVE" -> 0
                            [] device[req.device_id].status = "INACTIVE" -> 1
                            [] device[req.device_id].status = "MAINTENANCE"
                                 -> 2]

\* C17: GetDeviceInfo for an existing device answers with opcode 7 and the
\* row's firmware (or null), desired firmware and status as 0, 1 or 2; the
\* request changes no row of the catalog.
C17_GetDeviceInfoReportsRow ==
  /\ []GetDeviceInfoAnswer
  /\ [][udp.opcode = GetDeviceInfoRequest
        => UNCHANGED <<device, firmware, blob, device_key,
                       lightweight_key_details, device_key_seq>>]_vars

\* The answer for a device in MAINTENANCE is about to be sent.
C17_Witness ==
  /\ udp.pc = "send"
  /\ udp.opcode = GetDeviceInfoRequest
  /\ udp.device_id \in DOMAIN device
  /\ device[udp.device_id].status = "MAINTENANCE"
  /\ response.opcode = GetDeviceInfoResponse
  /\ decode_get_device_info_response(response.pt).status = 2
  /\ decode_get_device_info_response(response.pt).firmware = Some(1)

\* A SetDeviceInfoResponse as a device reads it: array(3, firmware,
\* desired_firmware, status).
decode_set_device_info_response(operation) ==
  LET bad == [ok |-> FALSE, firmware |-> 0, desired_firmware |-> 0,
              status |-> 0]
      arr == dec_array(operation, 0)
      fw == dec_u32(operation, arr.pos)
      desired == dec_u32(operation, fw.pos)
      st == dec_u8(operation, desired.pos)
  IN IF ~arr.ok \/ arr.val # 3 THEN bad
     ELSE IF ~fw.ok THEN bad
     ELSE IF ~desired.ok THEN bad
     ELSE IF ~st.ok \/ st.pos # Len(operation) THEN bad
     ELSE [ok |-> TRUE, firmware |-> fw.val,
           desired_firmware |-> desired.val, status |-> st.val]

\* The status a status byte of 0, 1 or 2 stands for.
status_of_byte(b) ==
  CASE b = 0 -> "ACTIVE" [] b = 1 -> "INACTIVE" [] b = 2 -> "MAINTENANCE"

\* C18: a successful SetDeviceInfo sets firmware and status of the device of
\* the envelope's device_id to the request's and changes nothing else: that
\* row's desired_firmware, name and type, every other device row and every
\* other table stay as they were; its response (opcode 9) reports the
\* updated row's firmware, desired_firmware and status.  The successful
\* request is the one answered under opcode 9.
C18_SetDeviceInfoUpdatesOnlyFirmwareAndStatus ==
  [][(/\ udp.pc = "handle"
      /\ udp.opcode = SetDeviceInfoRequest
      /\ udp'.pc = "send"
      /\ response_of(udp').opcode = SetDeviceInfoResponse)
     => \E req \in {decode_set_device_info_request(udp.operation_bytes)},
           answer \in {response_of(udp')} :
          /\ answer.err = "none"
          /\ req.ok
          /\ req.status \in {0, 1, 2}
          /\ udp.device_id \in DOMAIN device
          /\ DOMAIN device' = DOMAIN device
          /\ \A d \in DOMAIN device :
                device'[d] =
                  IF d = udp.device_id
                  THEN [name |-> device[d].name,
                        type_ |-> device[d].type_,
                        firmware |-> Some(req.firmware),
                        desired_firmware |-> device[d].desired_firmware,
                        status |-> status_of_byte(req.status)]
                  ELSE device[d]
          /\ UNCHANGED <<firmware, blob, device_key,
                         lightweight_key_details, device_key_seq>>
          /\ decode_set_device_info_response(answer.pt)
               = [ok |-> TRUE, firmware |-> req.firmware,
                  desired_firmware |->
                     device[udp.device_id].desired_firmware,
                  status |-> req.status]]_vars

\* A device whose desired firmware is 1 has set its firmware to 2 and its
\* status to INACTIVE, and the response is about to be sent.
C18_Witness ==
  /\ udp.pc = "send"
  /\ udp.opcode = SetDeviceInfoRequest
  /\ response.opcode = SetDeviceInfoResponse
  /\ decode_set_device_info_response(response.pt)
       = [ok |-> TRUE, firmware |-> 2, desired_firmware |-> 1, status |-> 1]
  /\ device[udp.device_id].firmware = Some(2)
  /\ device[udp.device_id].status = "INACTIVE"

\* C19: a SetDeviceInfo request whose status byte is none of 0, 1, 2 is
\* answered with an opcode-1 envelope carrying InvalidOperation (0), and the
\* device row, like every other row of the catalog, is left unchanged.
C19_InvalidStatusIsRefused ==
  [][(/\ udp.pc = "handle"
      /\ udp.opcode = SetDeviceInfoRequest
      /\ udp' # udp
      /\ decode_set_device_info_request(udp.operation_bytes).ok
      /\ decode_set_device_info_request(udp.operation_bytes).status
           \notin {0, 1, 2})
     => \E answer \in {response_of(udp')} :
          /\ udp'.pc = "send"
          /\ answer.err = "none"
          /\ answer.opcode = Error
          /\ answer.pt = encode_operation_error(InvalidOperation)
          /\ answer.pt = <<129, 0>>
          /\ UNCHANGED <<device, firmware, blob, device_key,
                         lightweight_key_details, device_key_seq>>]_vars

\* The refusal of a request with status byte 9 is about to be sent.
C19_Witness ==
  /\ udp.pc = "send"
  /\ udp.opcode = SetDeviceInfoRequest
  /\ decode_set_device_info_request(udp.operation_bytes).ok
  /\ decode_set_device_info_request(udp.operation_bytes).status = 9
  /\ response.opcode = Error
  /\ response.pt = <<129, InvalidOperation>>

\* A GetFirmwareResponse as a device reads it: array(4, firmware, offset,
\* length, data).
decode_get_firmware_response(operation) ==
  LET bad == [ok |-> FALSE, firmware |-> 0, offset |-> 0, length |-> 0,
              data |-> <<>>]
      arr == dec_array(operation, 0)
      fw == dec_u32(operation, arr.pos)
      off == dec_u32(operation, fw.pos)
      len == dec_u32(operation, off.pos)
      data == dec_bytes(operation, len.pos)
  IN IF ~arr.ok \/ arr.val # 4 THEN bad
     ELSE IF ~fw.ok THEN bad
     ELSE IF ~off.ok THEN bad
     ELSE IF ~len.ok THEN bad
     ELSE IF ~data.ok \/ data.pos # Len(operation) THEN bad
     ELSE [ok |-> TRUE, firmware |-> fw.val, offset |-> off.val,
           length |-> len.val, data |-> data.val]

\* min(length, max(0, S - offset)) of a blob of S bytes.
bytes_due(S, offset, length) ==
  IF offset >= S THEN 0
  ELSE IF length < S - offset THEN length ELSE S - offset

\* C20: for a firmware of the catalog with a blob of S bytes, a GetFirmware
\* request (offset, length) with length at most 1 MiB is answered with
\* opcode 11 and plaintext (firmware_id, offset, n, data) where
\* n = min(length, max(0, S - offset)) and data is the blob's n bytes from
\* offset on.
C20_GetFirmwareReturnsTheByteRange ==
  \A req \in {decode_get_firmware_request(udp.operation_bytes)} :
    (/\ udp.pc = "send"
     /\ udp.opcode = GetFirmwareRequest
     /\ req.ok
     /\ req.length <= MaxFirmwareLength
     /\ req.firmware \in DOMAIN firmware
     /\ firmware[req.firmware].file_id \in DOMAIN blob)
    => \E bytes \in {blob[firmware[req.firmware].file_id]} :
       \E n \in {bytes_due(Len(bytes), req.offset, req.length)} :
          /\ response.err = "none"
          /\ response.opcode = GetFirmwareResponse
          /\ decode_get_firmware_response(response.pt)
               = [ok |-> TRUE, firmware |-> req.firmware,
                  offset |-> req.offset, length |-> n,
                  data |-> Slice(bytes, req.offset, n)]

\* C21: for a firmware that exists in the catalog (its row was found by
\* the handler), every GetFirmware request with a length above 1 MiB is
\* answered with Error(InvalidOperation), and so with no byte of a blob.
C21_OversizedLengthIsRefused ==
  [][(/\ udp.pc = "file"
      /\ udp.file.length > MaxFirmwareLength
      /\ udp' # udp)
     => \E answer \in {response_of(udp')} :
          /\ udp'.pc = "send"
          /\ answer.err = "none"
          /\ answer.opcode = Error
          /\ answer.pt = encode_operation_error(InvalidOperation)]_vars

\* C22: every decrypted request whose opcode is none of 6, 8, 10 (the
\* response opcodes 1, 7, 9, 11, the parameter opcodes 2 to 5, 0, and the
\* values above 11) is answered with an Error operation carrying
\* InvalidOperation, and no row of the catalog and no blob changes.
C22_UnknownOpcodeIsRefused ==
  [][(/\ udp.pc = "handle"
      /\ udp.opcode \notin {GetDeviceInfoRequest, SetDeviceInfoRequest,
                            GetFirmwareRequest}
      /\ udp' # udp)
     => \E answer \in {response_of(udp')} :
          /\ udp'.pc = "send"
          /\ answer.err = "none"
          /\ answer.opcode = Error
          /\ answer.pt = encode_operation_error(InvalidOperation)
          /\ UNCHANGED <<device, firmware, blob, device_key,
                         lightweight_key_details, device_key_seq>>]_vars

\* The refusal of a well-formed SetDeviceInfo payload sent under the
\* response opcode 9 is about to be sent; the device row is as at the start.
C22_Witness ==
  /\ udp.pc = "send"
  /\ udp.opcode = SetDeviceInfoResponse
  /\ udp.operation_bytes = set_device_info_request(2, 1)
  /\ response.opcode = Error
  /\ response.pt = <<129, InvalidOperation>>
  /\ device[DevA].firmware = None

\* C23: a GetDeviceInfo request for a device id with no Device row is
\* answered with Error(DeviceNotFound = 4), and a GetFirmware request for a
\* firmware id with no Firmware row with Error(FirmwareNotFound = 5),
\* whatever its offset and length; neither changes the catalog.
C23_MissingRowIsNotFound ==
  [][(/\ udp.pc = "handle"
      /\ udp' # udp)
     => /\ \A req \in {decode_get_device_info_request(udp.operation_bytes)} :
             (/\ udp.opcode = GetDeviceInfoRequest
              /\ req.ok
              /\ req.device_id \notin DOMAIN device)
             => \E answer \in {response_of(udp')} :
                  /\ udp'.pc = "send"
                  /\ answer.err = "none"
                  /\ answer.opcode = Error
                  /\ answer.pt = <<129, 4>>
                  /\ UNCHANGED <<device, firmware, blob, device_key,
                                 lightweight_key_details, device_key_seq>>
        /\ \A req \in {decode_get_firmware_request(udp.operation_bytes)} :
             (/\ udp.opcode = GetFirmwareRequest
              /\ req.ok
              /\ req.firmware \notin DOMAIN firmware)
             => \E answer \in {response_of(udp')} :
                  /\ udp'.pc = "send"
                  /\ answer.err = "none"
                  /\ answer.opcode = Error
                  /\ answer.pt = <<129, 5>>
                  /\ UNCHANGED <<device, firmware, blob, device_key,
                                 lightweight_key_details, device_key_seq>>]_vars

\* FirmwareNotFound is about to be sent for a request of more than 1 MiB at
\* offset 7 of a firmware without a row.
C23_Witness ==
  /\ udp.pc = "send"
  /\ udp.opcode = GetFirmwareRequest
  /\ udp.operation_bytes = get_firmware_request(5, 7, MaxFirmwareLength + 1)
  /\ response.opcode = Error
  /\ response.pt = <<129, FirmwareNotFound>>

\* C24: datagrams are handled concurrently: while the processing of one
\* request is suspended at a catalog or file operation (the key lookup, the
\* handler's statement, the read of the blob), the service can receive
\* another datagram.
C24_ReceivesWhileARequestIsSuspended ==
  udp.pc \in {"key", "handle", "file"}
    => ENABLED (\E rx \in ReceivedDevice : udp_recv(rx))

\* A request past its decryption, and the loop about to hand its response
\* to the socket.
decrypted == udp.pc \in {"handle", "file", "send"}

\* C25: per-request work is not cancelled once decryption has succeeded.
\* The loop leaves only at its select point (from recv_from, with the token
\* cancelled); a decrypted request moves on from its handler to the read of
\* the blob or to the sealed response, and from the sealed response to
\* send_to, whether or not shutdown has been signalled; the device table
\* changes only in the step that also holds the response (a SetDeviceInfo
\* is applied whole or not at all); and every decrypted request comes to
\* its send_to.
C25_DecryptedRequestRunsToCompletion ==
  /\ [][udp'.pc = "exit" => (udp.pc = "recv" /\ cancel)]_vars
  /\ [][(udp.pc = "handle" /\ udp' # udp) => udp'.pc \in {"file", "send"}]_vars
  /\ [][(udp.pc = "file" /\ udp' # udp) => udp'.pc = "send"]_vars
  /\ [][(udp.pc = "send" /\ udp' # udp)
          => (udp'.pc = "recv" /\ sent' # sent)]_vars
  /\ [][device' # device => (udp.pc = "handle" /\ udp'.pc = "send")]_vars
  /\ \A n \in {0, 1} : (decrypted /\ sent = n) ~> (sent # n)

\* Shutdown has been signalled while a SetDeviceInfo was in flight; the
\* update is applied and its response is about to be handed to the socket.
C25_Witness ==
  /\ cancel
  /\ udp.pc = "send"
  /\ udp.opcode = SetDeviceInfoRequest
  /\ response.opcode = SetDeviceInfoResponse
  /\ device[DevA].firmware = Some(2)
  /\ device[DevA].status = "INACTIVE"

\* The rows of the catalog that name the blob file file_id.
rows_of_file(table, file_id) ==
  {i \in DOMAIN table : table[i].file_id = file_id}

\* C26: under any interleaving of uploads, deletes and GetFirmware
\* requests, every firmware row has its blob file in the store; a row is
\* inserted only for a file already written, a file is removed only when no
\* row names it, and a delete answered with success has removed the row and
\* the file.
C26_EveryRowHasItsBlob ==
  /\ [](\A i \in DOMAIN firmware : firmware[i].file_id \in DOMAIN blob)
  /\ [][\A i \in DOMAIN firmware' \ DOMAIN firmware :
          firmware'[i].file_id \in DOMAIN blob]_vars
  /\ [][\A f \in DOMAIN blob \ DOMAIN blob' :
          rows_of_file(firmware, f) = {}]_vars
  /\ [][\A w \in RestWorkers :
          (rest[w].pc = "remove" /\ rest'[w].pc = "idle")
            => /\ rest'[w].res = Ok
               /\ rest[w].file_id \notin DOMAIN blob'
               /\ rows_of_file(firmware', rest[w].file_id) = {}]_vars

\* An uploaded firmware has been deleted with success: its row and its
\* file are gone again, beside the rows and files of the start.
C26_Witness ==
  /\ \E w \in RestWorkers : rest[w].pc = "idle" /\ rest[w].res = Ok
  /\ firmware_seq = 3
  /\ DOMAIN firmware = {1, 2}
  /\ DOMAIN blob = {"f1", "f2"}

\* C27: an upload whose insert fails (a duplicate (name, version), answered
\* Conflict; any other database error) or that gets no catalog connection
\* leaves neither a row nor a file: the step that answers anything but
\* Created removes the file written for the upload and leaves the firmware
\* table as it was; Conflict is the answer exactly to a duplicate, and a
\* duplicate is never answered Created.
C27_FailedUploadLeavesNothing ==
  [][\A w \in RestWorkers :
       (rest[w].pc = "insert" /\ rest'[w].pc = "idle")
         => /\ rest'[w].res \in {Created, Conflict, InternalServerError}
            /\ rest'[w].res = Conflict
                 => firmware_unique_violation(rest[w].name, rest[w].version)
            /\ firmware_unique_violation(rest[w].name, rest[w].version)
                 => rest'[w].res # Created
            /\ rest'[w].res # Created
                 => /\ rest[w].file_id \in DOMAIN blob
                    /\ rest[w].file_id \notin DOMAIN blob'
                    /\ firmware' = firmware
                    /\ rows_of_file(firmware', rest[w].file_id) = {}]_vars

\* A duplicate upload has been answered Conflict and another upload has
\* failed with an internal error: the catalog and the store are those of
\* the start.
C27_Witness ==
  /\ \E w \in RestWorkers : rest[w].pc = "idle" /\ rest[w].res = Conflict
  /\ \E w \in RestWorkers :
       rest[w].pc = "idle" /\ rest[w].res = InternalServerError
  /\ DOMAIN firmware = {1, 2}
  /\ DOMAIN blob = {"f1", "f2"}

\* The firmware and status a SetDeviceInfo request of device 7 asks
\* for, as the pair of the device row.
requested_pairs ==
  {<<Some(req.firmware), status_of_byte(req.status)>> :
     req \in {r \in {decode_set_device_info_request(q[2]) :
                       q \in {p \in DeviceRequests(DevA) :
                                p[1] = SetDeviceInfoRequest}} :
                r.ok /\ r.status \in {0, 1, 2}}}

protected_header_of(msg) == dec_bytes(msg, dec_array(msg, 0).pos).val

\* C29: a protected header with its five entries in any order of their
\* keys, its map and its critical header list each of fixed or of
\* indefinite length, is decoded without error to the device id, opcode,
\* algorithm and nonce that the fixed-length header in the encoder's order
\* decodes to, those the device wrote; and decode_msg opens the envelope to
\* that device id, opcode and operation.
C29_AnyOrderAndLengthFormDecodeAlike ==
  (/\ codec.pc \in {"crafted", "received"}
   /\ codec.tamper = "crafted"
   /\ codec.craft \in KeyOrderCrafts)
    => \E hd \in {decode_protected_header(protected_header_of(codec.msg))} :
          /\ hd.err = "none"
          /\ hd = decode_protected_header(
                    encode_protected_header(
                      [device_id |-> codec.device_id,
                       opcode |-> codec.opcode,
                       encryption_algorithm |-> codec.key_type,
                       nonce |-> Bytes(nonce_len(codec.key_type), 9)]))
          /\ hd.header.device_id = Some(codec.device_id)
          /\ hd.header.opcode = Some(codec.opcode)
          /\ hd.header.encryption_algorithm = Some(codec.key_type)
          /\ hd.header.nonce = Some(Bytes(nonce_len(codec.key_type), 9))
          /\ codec.pc = "received"
               => /\ codec.res.err = "none"
                  /\ codec.res.device_id = codec.device_id
                  /\ codec.res.opcode = codec.opcode
                  /\ codec.res.pt = codec.operation

\* An envelope whose header map, of indefinite length, starts with the
\* critical header list, itself of fixed length, and ends with the
\* algorithm, has been opened.
C29_Witness ==
  /\ codec.pc = "received"
  /\ codec.tamper = "crafted"
  /\ codec.craft.keys = <<CriticalHeaderList, EncryptionNonce, Opcode,
                          DeviceId, EncryptionAlgorithm>>
  /\ codec.craft.critical = <<DeviceId, Opcode>>
  /\ codec.craft.indefinite
  /\ ~codec.craft.indefinite_list
  /\ protected_header_of(codec.msg)[1] = 191
  /\ codec.res.err = "none"
  /\ codec.res.device_id = 70000

\* The data items of buf from pos on, one after the other, each as
\* <<major type, argument>> (the argument of a byte string is its length,
\* that of an indefinite-length container -1); <<-1, -1>> where the bytes
\* are no data item.
RECURSIVE items(_, _)
items(buf, pos) ==
  IF pos >= Len(buf) THEN <<>>
  ELSE LET h == head(buf, pos)
           m == major(buf, pos)
       IN IF ~h.ok THEN << <<-1, -1>> >>
          ELSE IF m \in {2, 3}
          THEN IF h.val < 0 \/ h.pos + h.val > Len(buf)
               THEN << <<-1, -1>> >>
               ELSE << <<m, h.val>> >> \o items(buf, h.pos + h.val)
          ELSE << <<m, h.val>> >> \o items(buf, h.pos)

\* C30: every envelope of encode_msg is an array of fixed length 3 of a
\* byte string, an empty map and a byte string; the first byte string is a
\* map of fixed length 5 with the entries 1 (algorithm), 8608 (device id),
\* 8633 (opcode), 5 (nonce, of nonce_len(algorithm) bytes) and 2 (critical
\* headers, the array [8608, 8633] of fixed length) in this order, and
\* nothing else.
C30_EncoderEmitsTheFixedForm ==
  codec.pc \in {"encoded", "decoded"}
    => /\ \E env \in {items(codec.msg, 0)} :
             /\ Len(env) = 4
             /\ env[1] = <<4, 3>>
             /\ env[2][1] = 2
             /\ env[3] = <<5, 0>>
             /\ env[4][1] = 2
       /\ items(protected_header_of(codec.msg), 0)
            = << <<5, 5>>,
                 <<0, 1>>, <<0, alg_id(codec.key_type)>>,
                 <<0, 8608>>, <<0, codec.device_id>>,
                 <<0, 8633>>, <<0, codec.opcode>>,
                 <<0, 5>>, <<2, nonce_len(codec.key_type)>>,
                 <<0, 2>>, <<4, 2>>, <<0, 8608>>, <<0, 8633>> >>

\* An envelope for device 70000 and opcode 65535 under Ascon has been
\* emitted: its header starts with the head of a map of 5 entries and holds
\* a nonce of 16 bytes.
C30_Witness ==
  /\ codec.pc = "encoded"
  /\ codec.key_type = "AsconAead128"
  /\ codec.device_id = 70000
  /\ codec.opcode = 65535
  /\ codec.msg[1] = 131
  /\ protected_header_of(codec.msg)[1] = 165
  /\ items(protected_header_of(codec.msg), 0)[9] = <<2, 16>>

\* C31: once shutdown has cancelled the token the loop comes to its exit,
\* which is when the join handle that shutdown awaits completes; the loop
\* exits only with the token cancelled, and after its exit no datagram is
\* received, handled or answered and no table changes.
C31_ShutdownEndsTheLoop ==
  /\ cancel ~> (udp.pc = "exit")
  /\ [](udp.pc = "exit" => cancel)
  /\ [][udp.pc = "exit"
          => /\ udp' = udp
             /\ sent' = sent
             /\ UNCHANGED <<device, firmware, blob, device_key,
                            lightweight_key_details>>]_vars
  /\ [](udp.pc = "exit"
          => ~ENABLED (\E rx \in ReceivedShutdown : udp_recv(rx)))

\* The loop has exited after shutdown, having answered a request before.
C31_Witness ==
  /\ cancel
  /\ udp.pc = "exit"
  /\ sent = 1
  /\ device[DevA].firmware = Some(1)
  /\ device[DevA].status = "MAINTENANCE"

\* C32: a failure at a datagram, be it of recv_from, of decoding or
\* decrypting, of the handler, of the response's encryption or of send_to,
\* neither ends nor blocks the loop.  With no shutdown signalled the loop
\* never exits; every step that records a failure, and every step from
\* send_to, leaves the loop in recv_from, which it always comes back to;
\* in recv_from the valid datagram can be received, whatever failed
\* before, and is then handled from fresh locals, up to its response
\* sealed for send_to (unless its own encryption fails); and a send that
\* does not fail hands the response to the socket.
C32_FailuresDoNotStopTheLoop ==
  /\ [](udp.pc # "exit")
  /\ [][(udp' # udp /\ udp'.err # "none") => udp'.pc = "recv"]_vars
  /\ [][(udp.pc = "send" /\ udp' # udp)
          => /\ udp'.pc = "recv"
             /\ udp'.err = "none" => sent' # sent]_vars
  /\ [](udp.pc = "recv" => ENABLED udp_recv(ValidReceived))
  /\ [][(udp.pc = "recv" /\ udp'.dgram = ValidDatagram)
          => udp' = [IdleUdp EXCEPT !.pc = "key",
                                    !.dgram = ValidDatagram,
                                    !.addr = PeerA]]_vars
  /\ (udp.pc # "recv") ~> (udp.pc = "recv")
  /\ (udp.pc = "key" /\ udp.dgram = ValidDatagram)
       ~> \/ /\ udp.pc = "send"
             /\ udp.dgram = ValidDatagram
             /\ response.opcode = GetDeviceInfoResponse
          \/ udp.err = "EncodingError"

\* send_to has failed for a request that changed the device's row; the
\* loop is in recv_from again and can receive the valid datagram.
C32_Witness ==
  /\ udp.pc = "recv"
  /\ udp.err = "SendError"
  /\ device[DevB].firmware = Some(1)
  /\ device[DevB].status = "MAINTENANCE"
  /\ sent = 0
  /\ ENABLED udp_recv(ValidReceived)

\* C33: a SetDeviceInfo request that decodes, with a status of 0, 1 or 2,
\* whose firmware is no row of firmware, or whose envelope's device has no
\* row (any more), is answered under opcode 1 with InternalError (6), and
\* the device table is left as it was: no row is created or changed.
C33_UnknownFirmwareOrDeviceIsInternalError ==
  [][(/\ udp.pc = "handle"
      /\ udp.opcode = SetDeviceInfoRequest
      /\ udp' # udp
      /\ decode_set_device_info_request(udp.operation_bytes).ok
      /\ decode_set_device_info_request(udp.operation_bytes).status
           \in {0, 1, 2}
      /\ \/ decode_set_device_info_request(udp.operation_bytes).firmware
              \notin DOMAIN firmware
         \/ udp.device_id \notin DOMAIN device)
     => \E answer \in {response_of(udp')} :
          /\ udp'.pc = "send"
          /\ answer.err = "none"
          /\ answer.opcode = Error
          /\ answer.pt = <<129, 6>>
          /\ answer.pt = encode_operation_error(InternalError)
          /\ UNCHANGED <<device, firmware, blob, device_key,
                         lightweight_key_details>>]_vars

\* The device of the envelope was deleted after its request was decrypted:
\* the request for firmware 2, which is in the catalog, is answered with
\* InternalError and there is no row of the device.
C33_Witness ==
  /\ udp.pc = "send"
  /\ udp.opcode = SetDeviceInfoRequest
  /\ udp.device_id = DevA
  /\ decode_set_device_info_request(udp.operation_bytes).firmware = 2
  /\ DevA \notin DOMAIN device
  /\ response.opcode = Error
  /\ response.pt = <<129, InternalError>>

\* C34: decode_msg accepts an envelope only if its critical header list is
\* exactly [8608, 8633]: an envelope whose protected header holds the five
\* entries and any other list (an empty one, one without 8608 or 8633, one
\* with an entry twice or in the other order) is rejected, and nothing is
\* decrypted.
C34_OnlyTheExactCriticalListIsAccepted ==
  (/\ codec.pc = "received"
   /\ codec.tamper = "crafted"
   /\ codec.craft.keys = CanonicalKeys
   /\ codec.craft.critical # <<DeviceId, Opcode>>)
    => /\ codec.res.err # "none"
       /\ codec.res.pt = <<>>

\* The statuses of the committed keys of device d, as a bag.
statuses_of(d) ==
  [st \in KeyStatuses |-> Cardinality(keys_of(d, st))]

NoKeys == [st \in KeyStatuses |-> 0]

ActiveOnly == [NoKeys EXCEPT !["ACTIVE"] = 1]

ActiveAndNext == [NoKeys EXCEPT !["ACTIVE"] = 1, !["NEXT"] = 1]

\* C35: concurrent LIGHTWEIGHT creates for one device end as in a serial
\* order of them.  The committed keys of a device are none, then an ACTIVE
\* one, then an ACTIVE and a NEXT one, and nothing else; of the creates
\* whose key passes the length check, the one that commits on a device
\* without keys stores the ACTIVE row, the one that commits next stores the
\* NEXT row, with the later id, and every one that ends otherwise is
\* answered CONFLICT, on a device that has its NEXT key, and stores
\* nothing: of N of them one stores ACTIVE, one NEXT, and N - 2 are
\* refused.  A create whose key fails the length check is answered
\* BAD_REQUEST and stores nothing, whatever runs beside it.
C35_ConcurrentCreatesAreSerial ==
  /\ [](\A d \in {DevA, DevB} :
          statuses_of(d) \in {NoKeys, ActiveOnly, ActiveAndNext})
  /\ [][\A a \in Admins :
          (tx[a].op = "create" /\ tx'[a].op = "idle")
            => \E d \in {tx[a].device_id} :
                 \/ /\ ~payload_accepted(tx[a].payload)
                    /\ tx[a].res = "BAD_REQUEST"
                    /\ UNCHANGED <<device_key, lightweight_key_details>>
                 \/ /\ payload_accepted(tx[a].payload)
                    /\ tx[a].res = "CREATED"
                    /\ statuses_of(d) = NoKeys
                    /\ statuses_of(d)' = ActiveOnly
                 \/ /\ payload_accepted(tx[a].payload)
                    /\ tx[a].res = "CREATED"
                    /\ statuses_of(d) = ActiveOnly
                    /\ statuses_of(d)' = ActiveAndNext
                    /\ \A r \in keys_of(d, "ACTIVE"), n \in keys_of(d, "NEXT")' :
                          r.id < n.id
                 \/ /\ payload_accepted(tx[a].payload)
                    /\ tx[a].res = "CONFLICT"
                    /\ statuses_of(d) = ActiveAndNext
                    /\ UNCHANGED <<device_key, lightweight_key_details>>]_vars

\* The device holds its ACTIVE and its NEXT key, and a third create for it
\* is about to be answered CONFLICT.
C35_Witness ==
  /\ statuses_of(DevA) = ActiveAndNext
  /\ \E a \in Admins :
        /\ tx[a].op = "create"
        /\ tx[a].device_id = DevA
        /\ tx[a].pc = "rollback"
        /\ tx[a].res = "CONFLICT"

\* C36: no step changes the status of a device_key row that exists: a row
\* that is kept is kept as it was, an ACTIVE row is kept by every step, a
\* row that appears as ACTIVE has the id of no row that was there (no NEXT
\* row is promoted), and no row has the status EXPIRED.
C36_KeyStatusNeverChanges ==
  /\ [](\A r \in device_key : r.status # "EXPIRED")
  /\ [][/\ \A r \in device_key, q \in device_key' : q.id = r.id => q = r
        /\ \A r \in device_key : r.status = "ACTIVE" => r \in device_key'
        /\ \A q \in device_key' \ device_key :
              /\ q.status # "EXPIRED"
              /\ \A r \in device_key : r.id # q.id]_vars

\* The same without the ACTIVE row being kept: it is the delete of a row
\* that became ACTIVE after the delete's status check that breaks C36.
KeyRowsAreNeverRewritten ==
  /\ [](\A r \in device_key : r.status # "EXPIRED")
  /\ [][/\ \A r \in device_key, q \in device_key' : q.id = r.id => q = r
        /\ \A q \in device_key' \ device_key :
              /\ q.status # "EXPIRED"
              /\ \A r \in device_key : r.id # q.id]_vars

\* The lightweight_key_details rows of the device_key row with this id.
details_of(id) ==
  {l \in lightweight_key_details : l.device_key = id}

\* C37: key creation is atomic.  In every committed state each device_key
\* row has exactly one details row and each details row has its device_key
\* row; a create that is answered with anything but CREATED (a wrong key
\* length, a NEXT key in place, an unknown device, a TLS key refused after
\* its device_key row was inserted) leaves both tables as they were, and a
\* create that is answered CREATED adds one row to each.
C37_KeyCreationIsAtomic ==
  /\ [](/\ \A r \in device_key : Cardinality(details_of(r.id)) = 1
        /\ \A l \in lightweight_key_details :
              \E r \in device_key : r.id = l.device_key)
  /\ [][\A a \in Admins :
          (tx[a].op = "create" /\ tx'[a].op = "idle")
            => IF tx[a].res = "CREATED"
               THEN \E r \in device_key' \ device_key :
                       /\ device_key' = device_key \cup {r}
                       /\ \E l \in lightweight_key_details' \ lightweight_key_details :
                             /\ l.device_key = r.id
                             /\ lightweight_key_details' =
                                   lightweight_key_details \cup {l}
               ELSE /\ tx[a].res \in {"BAD_REQUEST", "CONFLICT", "NOT_FOUND"}
                    /\ UNCHANGED <<device_key, lightweight_key_details>>]_vars

\* A create of a TLS key has inserted its device_key row and is refused.
C37_Witness ==
  \E a \in Admins :
     /\ tx[a].op = "create"
     /\ tx[a].pc = "rollback"
     /\ tx[a].payload.key_type = "TLS"
     /\ tx[a].ins # {}
     /\ tx[a].res = "CONFLICT"

\* What decode_msg answers to the GetDeviceInfo request a device seals with
\* the key bytes and the algorithm of the details row l.
decode_of_request_sealed_with(dev, l) ==
  cose_handler_decode_msg(
    device_datagram(l.algorithm, l.key, dev, GetDeviceInfoRequest,
                    get_device_info_request(dev)))

\* C38: every LIGHTWEIGHT key create_device_key has stored as a device's
\* ACTIVE key is usable on the datagram plane: the request the device seals
\* with those key bytes and that algorithm is decrypted by the service, for
\* AES-GCM-128 and for Ascon-AEAD-128.
C38_AcceptedActiveKeyIsUsable ==
  \A r \in device_key :
     (r.status = "ACTIVE" /\ r.key_type = "LIGHTWEIGHT")
       => \A l \in details_of(r.id) :
             \E res \in {decode_of_request_sealed_with(r.device, l)} :
                /\ res.err = "none"
                /\ res.device_id = r.device
                /\ res.opcode = GetDeviceInfoRequest
                /\ res.operation_bytes = get_device_info_request(r.device)

\* The same for the stored keys that have the length of their primitive:
\* it is the length create_device_key asks of an AES-GCM-128 key that
\* breaks C38.
ActiveKeyOfAeadLengthIsUsable ==
  \A r \in device_key :
     (r.status = "ACTIVE" /\ r.key_type = "LIGHTWEIGHT")
       => \A l \in details_of(r.id) :
             Len(l.key) = key_len(l.algorithm)
               => \E res \in {decode_of_request_sealed_with(r.device, l)} :
                     /\ res.err = "none"
                     /\ res.device_id = r.device
                     /\ res.opcode = GetDeviceInfoRequest
                     /\ res.operation_bytes = get_device_info_request(r.device)

\* An ACTIVE key of the length of its primitive is stored.
SomeActiveKeyOfAeadLength ==
  \E r \in device_key, l \in lightweight_key_details :
     /\ r.status = "ACTIVE" /\ l.device_key = r.id
     /\ Len(l.key) = key_len(l.algorithm)

\* C39: delete_device_key(D, K) removes no key row of a device other than
\* D.  A delete that ends removes nothing but the row with id K and device
\* D and its details row; when the row with id K belongs to another device
\* the delete is answered NOT_FOUND and both tables stay as they were.
C39_DeleteTouchesOnlyItsDevice ==
  [][\A a \in Admins :
       (tx[a].op = "delete" /\ tx'[a].op = "idle")
         => /\ \A r \in device_key \ device_key' :
                  r.id = tx[a].path_id /\ r.device = tx[a].device_id
            /\ \A l \in lightweight_key_details \ lightweight_key_details' :
                  /\ l.device_key = tx[a].path_id
                  /\ \E r \in device_key :
                        r.id = l.device_key /\ r.device = tx[a].device_id
            /\ (\E r \in device_key :
                   r.id = tx[a].path_id /\ r.device # tx[a].device_id)
                 => /\ tx[a].res = "NOT_FOUND"
                    /\ UNCHANGED <<device_key, lightweight_key_details>>]_vars

\* A delete that names a key of another device is about to be answered.
C39_Witness ==
  \E a \in Admins :
     /\ tx[a].op = "delete"
     /\ tx[a].pc = "rollback"
     /\ tx[a].res = "NOT_FOUND"
     /\ \E r \in device_key :
           r.id = tx[a].path_id /\ r.device # tx[a].device_id

\* The socket address the datagram dg came from.
source_of(dg) ==
  CHOOSE addr \in {PeerA, PeerB} :
     \E d \in PeerDatagrams : d.dgram = dg /\ d.addr = addr

\* C40: for each datagram received the service sends at most one datagram,
\* and only to that datagram's source.  Nothing is sent but by the send_to
\* that ends the iteration of a decrypted request, and it is addressed to
\* the source of the datagram of that iteration; the address and the
\* datagram stay the iteration's own from the receive to the send; the
\* response about to be sent carries the device id of the request's
\* envelope.
C40_OneResponseToTheSource ==
  /\ [][sent' # sent
          => /\ udp.pc = "send"
             /\ udp'.pc = "recv"
             /\ udp'.sent_to = source_of(udp.dgram)
             /\ udp'.sent_to = udp.addr]_vars
  /\ [][sent' = sent => udp'.sent_to = NoAddr]_vars
  /\ [][udp.pc # "recv"
          => \/ udp'.pc = "recv"
             \/ udp'.dgram = udp.dgram /\ udp'.addr = udp.addr]_vars
  /\ [](udp.pc # "recv" => udp.addr = source_of(udp.dgram))
  /\ [](udp.pc = "send"
          => /\ envelope(udp.response_buf).err = "none"
             /\ envelope(udp.response_buf).device_id
                  = envelope(udp.dgram).device_id)

\* A response to device 7 has gone to PeerB, and a request of device 300
\* from PeerB has been decrypted.
C40_Witness ==
  /\ sent = 1
  /\ udp.pc = "handle"
  /\ udp.addr = PeerB
  /\ udp.device_id = DevB

====
